---- MODULE Spec2Model ----
(***************************************************************************)
(* A model of the OFAC SDN advanced-XML parser                             *)
(* (consolidate_parser_new_address_test_180nulls.py).                      *)
(*                                                                         *)
(* The parsed document is the record doc; the five extractors and main     *)
(* are modelled loop iteration by loop iteration, pc being the position    *)
(* in main.  Python str values are TLA+ strings; the two non-string        *)
(* outcomes of ElementTree are reserved strings: None (an element with no  *)
(* text, or a dict.get default of None) and Absent (find() returned None / *)
(* the attribute is not in attrib).                                        *)
(***************************************************************************)
EXTENDS Integers, Sequences, FiniteSets, TLC

VARIABLES doc, maps, pc, err, idx, sub, cur,
          identity_to_fixed_ref, first_occurrence, data, non_latin_data,
          seen_records,
          feature_rows, id_rows, address_rows, name_rows, sanctions_rows,
          wb

vars == <<doc, maps, pc, err, idx, sub, cur,
          identity_to_fixed_ref, first_occurrence, data, non_latin_data,
          seen_records,
          feature_rows, id_rows, address_rows, name_rows, sanctions_rows,
          wb>>

(***************************************************************************)
(* Python values                                                           *)
(***************************************************************************)
None == "<None>"
Absent == "<absent>"

\* bool(x) of a str-or-None value
Truthy(x) == x # None /\ x # ""

\* elem.text if elem is not None else ""
TextOrEmpty(e) == IF e = Absent THEN "" ELSE e

\* dict.get(key, default); an absent attribute read with attrib.get(k, "")
\* arrives here as "".
Get(m, k, d) == IF k \in DOMAIN m THEN m[k] ELSE d

\* attrib.get(name, "")
AttrGet(a) == IF a = Absent THEN "" ELSE a

EmptyMap == [k \in {} |-> ""]

RECURSIVE SeqToSet(_)
SeqToSet(s) == IF s = <<>> THEN {} ELSE {Head(s)} \cup SeqToSet(Tail(s))

\* all sequences over S of length 0..n
SeqsUpTo(S, n) == UNION {[1..k -> S] : k \in 0..n}

(***************************************************************************)
(* Bounds of the model                                                     *)
(***************************************************************************)
MaxLocs == 2
MaxDocs == 2
MaxAliases == 2
MaxParties == 2
MaxValues == 3
MaxEntries == 2
MaxEvents == 2

(***************************************************************************)
(* main: the order of its statements                                       *)
(***************************************************************************)
\* MainOrder with the workbook and the FEATURE sheet built right after
\* feature_parser has returned
MainOrder_SheetAfterExtractor ==
  <<"download", "parse", "get_mappings", "name_maps", "feature", "workbook",
    "sheet_FEATURE", "id", "address", "name", "sanctions", "sheet_ID",
    "sheet_ADDRESS", "sheet_SANCTIONS_ENTRIES", "sheet_NAME", "remove_default",
    "save", "done">>

\* lines 718-827: the positions of main, in statement order
MainOrder ==
  <<"download", "parse", "get_mappings", "name_maps", "feature", "id",
    "address", "name", "sanctions", "workbook", "sheet_FEATURE", "sheet_ID",
    "sheet_ADDRESS", "sheet_SANCTIONS_ENTRIES", "sheet_NAME", "remove_default",
    "save", "done">>

\* the statement of main that follows the one at position stage
Following(stage) ==
  LET n == CHOOSE k \in 1..Len(MainOrder) : MainOrder[k] = stage
  IN MainOrder[n + 1]

(***************************************************************************)
(* address_parser                                                          *)
(***************************************************************************)
AddrFields == <<"Unknown", "Region", "Address 1", "Address 2", "Address 3",
                "City", "State/ Province", "Postal Code">>

AddrFieldSet == SeqToSet(AddrFields)

\* the keys of the data dictionary (CountryRelevanceID is not one of them)
AddrDataKeys == {"ID", "FixedRef", "AreaCodeID", "Country", "FeatureVersionID",
                 "Script Type"} \cup AddrFieldSet

address_fieldnames == <<"ID", "FixedRef", "AreaCodeID", "Country",
                        "CountryRelevanceID", "FeatureVersionID", "Unknown",
                        "Region", "Address 1", "Address 2", "Address 3", "City",
                        "State/ Province", "Postal Code", "Script Type">>

EmptyFields == [f \in AddrFieldSet |-> ""]

PredefinedScripts == <<"Chinese Simplified", "Chinese Traditional", "Cyrillic",
                       "Arabic", "Japanese">>

\* non_latin_data as first built: an insertion-ordered dict, script -> fields
InitNonLatin == [n \in 1..Len(PredefinedScripts) |->
                   [script |-> PredefinedScripts[n], values |-> EmptyFields]]

\* the if/elif chain on part_type_id; Absent when no branch is taken
PartField(part_type_id) ==
  CASE part_type_id = "1" -> "Unknown"
    [] part_type_id = "1450" -> "Region"
    [] part_type_id = "1451" -> "Address 1"
    [] part_type_id = "1452" -> "Address 2"
    [] part_type_id = "1453" -> "Address 3"
    [] part_type_id = "1454" -> "City"
    [] part_type_id = "1455" -> "State/ Province"
    [] part_type_id = "1456" -> "Postal Code"
    [] OTHER -> Absent

\* the (part_type_id, part_value) pairs of one Location in the order of the
\* nested loops over LocationPart and LocationPartValue
RECURSIVE PartValues(_)
PartValues(parts) ==
  IF parts = <<>> THEN <<>>
  ELSE [n \in 1..Len(Head(parts).values) |->
          [type |-> Head(parts).LocPartTypeID,
           Value |-> Head(parts).values[n].Value,
           Comment |-> Head(parts).values[n].Comment]]
       \o PartValues(Tail(parts))

HasScript(nld, script) == \E n \in 1..Len(nld) : nld[n].script = script

\* non_latin_data[comment] = {...} when the key is new
WithBucket(nld, script) ==
  IF HasScript(nld, script) THEN nld
  ELSE Append(nld, [script |-> script, values |-> EmptyFields])

\* SetBucket when every bucket is the same dictionary object: the write
\* shows in all of them
SetBucket_SharedObject(nld, script, field, value) ==
  [n \in 1..Len(nld) |-> [nld[n] EXCEPT !.values = [@ EXCEPT ![field] = value]]]

\* non_latin_data[comment][field] = value
SetBucket(nld, script, field, value) ==
  [n \in 1..Len(nld) |->
     IF nld[n].script = script
     THEN [nld[n] EXCEPT !.values = [@ EXCEPT ![field] = value]]
     ELSE nld[n]]

\* NonEmptyBucket letting every bucket through
NonEmptyBucket_Any(values) == \A f \in AddrFieldSet : values[f] = values[f]

\* the test of lines 536-545 on the values of one bucket
NonEmptyBucket(values) == \E f \in AddrFieldSet : Truthy(values[f])

\* the rows appended for the script buckets, in dict order
RECURSIVE NonLatinRows(_, _)
NonLatinRows(d, nld) ==
  IF nld = <<>> THEN <<>>
  ELSE (IF NonEmptyBucket(Head(nld).values)
        THEN <<[k \in AddrDataKeys |->
                  IF k \in AddrFieldSet THEN Head(nld).values[k]
                  ELSE IF k = "Script Type" THEN Head(nld).script
                  ELSE d[k]]>>
        ELSE <<>>)
       \o NonLatinRows(d, Tail(nld))


\* d[k] = v
Put(m, k, v) == [x \in DOMAIN m \cup {k} |-> IF x = k THEN v ELSE m[x]]

\* the Identity elements below one DistinctParty, profile by profile
RECURSIVE IdentitiesOf(_)
IdentitiesOf(profiles) ==
  IF profiles = <<>> THEN <<>>
  ELSE Head(profiles).identities \o IdentitiesOf(Tail(profiles))

\* MapIdentities keeping the entry an identity ID already has
RECURSIVE MapIdentities_FirstWins(_, _, _)
MapIdentities_FirstWins(m, identities, fixed_ref) ==
  IF identities = <<>> THEN m
  ELSE MapIdentities_FirstWins(
         IF Head(identities).ID \in DOMAIN m THEN m
         ELSE Put(m, Head(identities).ID, fixed_ref),
         Tail(identities), fixed_ref)

\* identity_to_fixed_ref[identity_id] = fixed_ref for each Identity in turn
RECURSIVE MapIdentities(_, _, _)
MapIdentities(m, identities, fixed_ref) ==
  IF identities = <<>> THEN m
  ELSE MapIdentities(Put(m, Head(identities).ID, fixed_ref), Tail(identities),
                     fixed_ref)

\* an uncaught exception leaves main
Abort(kind) == /\ pc' = "aborted"
               /\ err' = kind

AddrFrame == UNCHANGED <<doc, maps, cur, seen_records, feature_rows, id_rows,
                         name_rows, sanctions_rows, wb>>

\* AddressEnter with first_occurrence kept across calls, as a set defined at
\* module level would be
AddressEnter_SharedFirstOccurrence ==
  /\ pc = "address"
  /\ address_rows' = <<>>
  /\ identity_to_fixed_ref' = EmptyMap
  /\ idx' = 1
  /\ pc' = "address_map"
  /\ UNCHANGED <<err, sub, data, non_latin_data, first_occurrence>>
  /\ AddrFrame

\* lines 353-356, 365: data_rows = [], identity_to_fixed_ref = {}
AddressEnter ==
  /\ pc = "address"
  /\ address_rows' = <<>>
  /\ identity_to_fixed_ref' = EmptyMap
  /\ first_occurrence' = {}
  /\ idx' = 1
  /\ pc' = "address_map"
  /\ UNCHANGED <<err, sub, data, non_latin_data>>
  /\ AddrFrame

\* one iteration of the loop over DistinctParty that builds the identity map
AddressMapParty ==
  /\ pc = "address_map"
  /\ idx <= Len(doc.parties)
  /\ LET party == doc.parties[idx] IN
       IF party.FixedRef = Absent
       THEN /\ Abort("KeyError")
            /\ UNCHANGED <<idx, identity_to_fixed_ref>>
       ELSE /\ identity_to_fixed_ref' =
                 MapIdentities(identity_to_fixed_ref,
                               IdentitiesOf(party.profiles), party.FixedRef)
            /\ idx' = idx + 1
            /\ UNCHANGED <<pc, err>>
  /\ UNCHANGED <<sub, first_occurrence, data, non_latin_data, address_rows>>
  /\ AddrFrame

AddressMapDone ==
  /\ pc = "address_map"
  /\ idx > Len(doc.parties)
  /\ pc' = "address_loc"
  /\ idx' = 1
  /\ UNCHANGED <<err, sub, identity_to_fixed_ref, first_occurrence, data,
                 non_latin_data, address_rows>>
  /\ AddrFrame

\* CountryName applying the override whenever the area code is "11291"
CountryName_AreaOnly(area_code_id, country_id) ==
  IF area_code_id = "11291" THEN "undetermined"
  ELSE Get(maps.country, country_id, "")

\* country_name: lines 379-383
CountryName(area_code_id, country_id) ==
  IF area_code_id = "11291" /\ ~Truthy(country_id) THEN "undetermined"
  ELSE Get(maps.country, country_id, "")

\* LocationFixedRef with the sentinel the other lookups use as the default
LocationFixedRef_Unknown(m, location) ==
  IF location.IDRegDocumentID # Absent
  THEN Get(m, location.IDRegDocumentID, "Unknown")
  ELSE "Unknown"

\* fixed_ref: lines 385-391; m is identity_to_fixed_ref
LocationFixedRef(m, location) ==
  IF location.IDRegDocumentID # Absent
  THEN Get(m, location.IDRegDocumentID, "")
  ELSE ""

\* the head of one iteration over Location: lines 370-463
AddressLocation ==
  /\ pc = "address_loc"
  /\ idx <= Len(doc.locations)
  /\ LET location == doc.locations[idx]
         area_code_id == TextOrEmpty(location.AreaCodeID)
         country_id == TextOrEmpty(location.CountryID)
         country_name == CountryName(area_code_id, country_id)
         fixed_ref == LocationFixedRef(identity_to_fixed_ref, location)
     IN data' = [k \in AddrDataKeys |->
                   CASE k = "ID" -> location.ID
                     [] k = "FixedRef" -> fixed_ref
                     [] k = "AreaCodeID" -> area_code_id
                     [] k = "Country" -> country_name
                     [] OTHER -> ""]
  /\ non_latin_data' = InitNonLatin
  /\ sub' = 1
  /\ pc' = "address_part"
  /\ UNCHANGED <<err, idx, identity_to_fixed_ref, first_occurrence, address_rows>>
  /\ AddrFrame

\* one LocationPartValue: lines 468-524
AddressPartValue ==
  /\ pc = "address_part"
  /\ sub <= Len(PartValues(doc.locations[idx].parts))
  /\ LET pv == PartValues(doc.locations[idx].parts)[sub]
         value == TextOrEmpty(pv.Value)
         comment == TextOrEmpty(pv.Comment)
         field == PartField(pv.type)
     IN IF ~Truthy(comment)
        THEN /\ data' = IF field = Absent THEN data
                        ELSE [data EXCEPT ![field] = value]
             /\ UNCHANGED non_latin_data
        ELSE /\ non_latin_data' =
                  IF field = Absent THEN WithBucket(non_latin_data, comment)
                  ELSE SetBucket(WithBucket(non_latin_data, comment), comment,
                                 field, value)
             /\ UNCHANGED data
  /\ sub' = sub + 1
  /\ UNCHANGED <<pc, err, idx, identity_to_fixed_ref, first_occurrence,
                 address_rows>>
  /\ AddrFrame

\* data with its Script Type decided: lines 527-529
Tagged(d, seen) == IF d["ID"] \notin seen
                   THEN [d EXCEPT !["Script Type"] = "Latin"]
                   ELSE d

\* the end of one iteration over Location: lines 526-556
AddressEmit ==
  /\ pc = "address_part"
  /\ sub > Len(PartValues(doc.locations[idx].parts))
  /\ data' = Tagged(data, first_occurrence)
  /\ first_occurrence' = first_occurrence \cup {data["ID"]}
  /\ address_rows' = Append(address_rows, data') \o NonLatinRows(data', non_latin_data)
  /\ idx' = idx + 1
  /\ pc' = "address_loc"
  /\ UNCHANGED <<err, sub, identity_to_fixed_ref, non_latin_data>>
  /\ AddrFrame

\* return fieldnames, data_rows; main goes on to name_parser
AddressReturn ==
  /\ pc = "address_loc"
  /\ idx > Len(doc.locations)
  /\ pc' = Following("address")
  /\ UNCHANGED <<err, idx, sub, identity_to_fixed_ref, first_occurrence, data,
                 non_latin_data, address_rows>>
  /\ AddrFrame

NextAddress == \/ AddressEnter
               \/ AddressMapParty
               \/ AddressMapDone
               \/ AddressLocation
               \/ AddressPartValue
               \/ AddressEmit
               \/ AddressReturn


(***************************************************************************)
(* feature_parser                                                          *)
(***************************************************************************)
feature_fieldnames == <<"FixedRef", "FeatureType", "Value", "ReliabilityValue",
                        "Comment">>

\* str() of a value inside an f-string
PyStr(x) == IF x = None THEN "None" ELSE x

\* f"{Year.text}-{Month.text}-{Day.text}" of a Start or End element
FeatureDate(d) == PyStr(d.Year) \o "-" \o PyStr(d.Month) \o "-" \o PyStr(d.Day)

\* start.find('.//ns:Year', ns).text on a missing sub-element
DateRaises(d) == Absent \in {d.Year, d.Month, d.Day}

\* DatePeriodValue testing for a Start alone before testing for both bounds
DatePeriodValue_StartFirst(date_period) ==
  IF date_period = <<>> THEN ""
  ELSE LET start == date_period[1].Start
           end == date_period[1].End
       IN IF start # <<>> THEN "From " \o FeatureDate(start[1])
          ELSE IF end # <<>> THEN "Until " \o FeatureDate(end[1])
          ELSE ""

\* the DATE branch: lines 197-210
DatePeriodValue(date_period) ==
  IF date_period = <<>> THEN ""
  ELSE LET start == date_period[1].Start
           end == date_period[1].End
       IN IF start # <<>> /\ end # <<>>
          THEN FeatureDate(start[1]) \o " to " \o FeatureDate(end[1])
          ELSE IF start # <<>> THEN "From " \o FeatureDate(start[1])
          ELSE IF end # <<>> THEN "Until " \o FeatureDate(end[1])
          ELSE ""

\* the dispatch on DetailTypeID: lines 183-210
DetailValue(version_detail) ==
  IF version_detail = <<>> THEN ""
  ELSE LET detail == version_detail[1]
           detail_type_id == AttrGet(detail.DetailTypeID)
       IN CASE detail_type_id = "1431" ->
                 Get(maps.detail_reference, AttrGet(detail.DetailReferenceID), "")
            [] detail_type_id = "1432" -> detail.text
            [] detail_type_id = "1433" -> AttrGet(detail.CountryID)
            [] detail_type_id = "1430" -> DatePeriodValue(detail.DatePeriod)
            [] OTHER -> ""

\* FeatureTypeOf with the default label the other lookups use
FeatureTypeOf_Unknown(feature) ==
  Get(maps.feature_type, feature.FeatureTypeID, "Unknown")

\* the feature type label: line 172
FeatureTypeOf(feature) == Get(maps.feature_type, feature.FeatureTypeID, "")

\* FeatureValue with the Location handling used only when the dispatch on the
\* detail type left the value empty
FeatureValue_DetailWins(feature) ==
  IF /\ FeatureTypeOf(feature) = "Location"
     /\ feature.version.VersionLocation # <<>>
     /\ DetailValue(feature.version.VersionDetail) = ""
  THEN AttrGet(feature.version.VersionLocation[1].LocationID)
  ELSE DetailValue(feature.version.VersionDetail)

\* Value after the special handling for Location: lines 212-216
FeatureValue(feature) ==
  IF FeatureTypeOf(feature) = "Location" /\ feature.version.VersionLocation # <<>>
  THEN AttrGet(feature.version.VersionLocation[1].LocationID)
  ELSE DetailValue(feature.version.VersionDetail)

\* comment: lines 176-180 (the text of a Comment element may be None)
FeatureComment(feature_version) == TextOrEmpty(feature_version.Comment)

\* a date of the DATE branch lacks a Year, Month or Day element
FeatureRaises(feature) ==
  LET version_detail == feature.version.VersionDetail
  IN /\ version_detail # <<>>
     /\ AttrGet(version_detail[1].DetailTypeID) = "1430"
     /\ version_detail[1].DatePeriod # <<>>
     /\ \/ /\ version_detail[1].DatePeriod[1].Start # <<>>
           /\ DateRaises(version_detail[1].DatePeriod[1].Start[1])
        \/ /\ version_detail[1].DatePeriod[1].End # <<>>
           /\ DateRaises(version_detail[1].DatePeriod[1].End[1])

FeatureRow(fixed_ref, feature) ==
  [k \in SeqToSet(feature_fieldnames) |->
     CASE k = "FixedRef" -> fixed_ref
       [] k = "FeatureType" -> FeatureTypeOf(feature)
       [] k = "Value" -> FeatureValue(feature)
       [] k = "ReliabilityValue" ->
            Get(maps.reliability, AttrGet(feature.version.ReliabilityID), "Unknown")
       [] k = "Comment" -> FeatureComment(feature.version)]

FeatureFrame == UNCHANGED <<doc, maps, identity_to_fixed_ref, first_occurrence,
                            data, non_latin_data, seen_records, id_rows,
                            address_rows, name_rows, sanctions_rows, wb>>

\* line 164: data_rows = []
FeatureEnter ==
  /\ pc = "feature"
  /\ feature_rows' = <<>>
  /\ idx' = 1
  /\ pc' = "feature_party"
  /\ UNCHANGED <<err, sub, cur>>
  /\ FeatureFrame

\* the head of one iteration over DistinctParty: lines 167-169
FeatureParty ==
  /\ pc = "feature_party"
  /\ idx <= Len(doc.parties)
  /\ IF doc.parties[idx].FixedRef = Absent
     THEN /\ Abort("KeyError")
          /\ UNCHANGED <<sub, cur>>
     ELSE /\ cur' = [fixed_ref |-> doc.parties[idx].FixedRef]
          /\ sub' = 1
          /\ pc' = "feature_item"
          /\ UNCHANGED err
  /\ UNCHANGED <<idx, feature_rows>>
  /\ FeatureFrame

\* one iteration over the Features of the party: lines 170-225
FeatureItem ==
  /\ pc = "feature_item"
  /\ sub <= Len(doc.parties[idx].features)
  /\ LET feature == doc.parties[idx].features[sub]
     IN IF FeatureRaises(feature)
        THEN /\ Abort("AttributeError")
             /\ UNCHANGED <<sub, feature_rows>>
        ELSE /\ feature_rows' = Append(feature_rows, FeatureRow(cur.fixed_ref, feature))
             /\ sub' = sub + 1
             /\ UNCHANGED <<pc, err>>
  /\ UNCHANGED <<idx, cur>>
  /\ FeatureFrame

FeaturePartyEnd ==
  /\ pc = "feature_item"
  /\ sub > Len(doc.parties[idx].features)
  /\ idx' = idx + 1
  /\ pc' = "feature_party"
  /\ UNCHANGED <<err, sub, cur, feature_rows>>
  /\ FeatureFrame

\* return fieldnames, data_rows; main goes on to id_parser
FeatureReturn ==
  /\ pc = "feature_party"
  /\ idx > Len(doc.parties)
  /\ pc' = Following("feature")
  /\ UNCHANGED <<err, idx, sub, cur, feature_rows>>
  /\ FeatureFrame

NextFeature == \/ FeatureEnter
               \/ FeatureParty
               \/ FeatureItem
               \/ FeaturePartyEnd
               \/ FeatureReturn

(***************************************************************************)
(* id_parser                                                               *)
(***************************************************************************)
id_fieldnames == <<"FixedRef", "Document_Type_ID", "Document_Type_Name",
                   "Issued_By", "Issuing_Country_ID", "Issuing_Country_Name",
                   "Issue_Date", "Expiration_Date", "Value">>

\* every Identity that is a child of a Profile of a DistinctParty, in
\* document order
RECURSIVE AllIdentities(_)
AllIdentities(parties) ==
  IF parties = <<>> THEN <<>>
  ELSE IdentitiesOf(Head(parties).profiles) \o AllIdentities(Tail(parties))

\* root.find(".//ns:DistinctParty/ns:Profile/ns:Identity[@ID='...']"): the
\* first matching Identity element, <<>> for None
RECURSIVE FirstWithID(_, _)
FirstWithID(identities, identity_id) ==
  IF identities = <<>> THEN <<>>
  ELSE IF Head(identities).ID = identity_id THEN <<Head(identities)>>
  ELSE FirstWithID(Tail(identities), identity_id)

FindIdentity(parties, identity_id) ==
  FirstWithID(AllIdentities(parties), identity_id)

\* f"{year}-{month}-{day}" of a Start or End element, each part
\* x.text if x is not None else ""
DateOf(d) == PyStr(TextOrEmpty(d.Year)) \o "-" \o PyStr(TextOrEmpty(d.Month))
             \o "-" \o PyStr(TextOrEmpty(d.Day))

\* ScanDates letting the date-type code decide the field: 1480 sets the issue
\* date from the Start, 1481 the expiration date from the End
RECURSIVE ScanDates_ByType(_, _)
ScanDates_ByType(documentdates, dates) ==
  IF documentdates = <<>> THEN dates
  ELSE LET dateperiod == Head(documentdates).DatePeriod
           type == Head(documentdates).IDRegDocDateTypeID
           issue_date == IF /\ type = "1480" /\ dateperiod # <<>>
                            /\ dateperiod[1].Start # <<>>
                         THEN DateOf(dateperiod[1].Start[1]) ELSE dates[1]
           expiration_date == IF /\ type = "1481" /\ dateperiod # <<>>
                                 /\ dateperiod[1].End # <<>>
                              THEN DateOf(dateperiod[1].End[1]) ELSE dates[2]
       IN ScanDates_ByType(Tail(documentdates), <<issue_date, expiration_date>>)

\* the loop over DocumentDate: dates is <<issue_date, expiration_date>>
RECURSIVE ScanDates(_, _)
ScanDates(documentdates, dates) ==
  IF documentdates = <<>> THEN dates
  ELSE LET dateperiod == Head(documentdates).DatePeriod
           issue_date == IF dateperiod # <<>> /\ dateperiod[1].Start # <<>>
                         THEN DateOf(dateperiod[1].Start[1]) ELSE dates[1]
           expiration_date == IF dateperiod # <<>> /\ dateperiod[1].End # <<>>
                              THEN DateOf(dateperiod[1].End[1]) ELSE dates[2]
       IN ScanDates(Tail(documentdates), <<issue_date, expiration_date>>)

\* the data dictionary of one IDRegDocument whose Identity element was found
IdRow(idregdocument, found) ==
  LET issued_by_country_id == AttrGet(idregdocument.IssuedByCountryID)
      dates == ScanDates(idregdocument.dates, <<"", "">>)
  IN [k \in SeqToSet(id_fieldnames) |->
        CASE k = "FixedRef" -> found.FixedRef
          [] k = "Document_Type_ID" -> idregdocument.IDRegDocTypeID
          [] k = "Document_Type_Name" ->
               Get(maps.doc_type, idregdocument.IDRegDocTypeID,
                   "Unknown Document Type")
          [] k = "Issued_By" -> TextOrEmpty(idregdocument.IssuingAuthority)
          [] k = "Issuing_Country_ID" -> issued_by_country_id
          [] k = "Issuing_Country_Name" ->
               Get(maps.country, issued_by_country_id, "Unknown Country")
          [] k = "Issue_Date" -> dates[1]
          [] k = "Expiration_Date" -> dates[2]
          [] k = "Value" -> TextOrEmpty(idregdocument.IDRegistrationNo)]

\* IdRowsAfter with the cross-reference miss emitting a row with an empty owner
IdRowsAfter_EmitUnresolved(rows, idregdocument, found) ==
  IF found # <<>> THEN Append(rows, IdRow(idregdocument, found[1]))
  ELSE Append(rows, IdRow(idregdocument, [FixedRef |-> ""]))

\* the body of the loop over IDRegDocument: the rows after this document
IdRowsAfter(rows, idregdocument, found) ==
  IF found # <<>> THEN Append(rows, IdRow(idregdocument, found[1])) ELSE rows

IdFrame == UNCHANGED <<doc, maps, sub, cur, identity_to_fixed_ref,
                       first_occurrence, data, non_latin_data, seen_records,
                       feature_rows, address_rows, name_rows, sanctions_rows, wb>>

\* line 244: data_rows = []
IdEnter ==
  /\ pc = "id"
  /\ id_rows' = <<>>
  /\ idx' = 1
  /\ pc' = "id_doc"
  /\ UNCHANGED err
  /\ IdFrame

\* one iteration of the loop over IDRegDocument: lines 246-330
IdDocument ==
  /\ pc = "id_doc"
  /\ idx <= Len(doc.idregdocs)
  /\ LET idregdocument == doc.idregdocs[idx]
         found == FindIdentity(doc.parties, idregdocument.IdentityID)
     IN IF found # <<>> /\ found[1].FixedRef = Absent
        THEN /\ Abort("KeyError")
             /\ UNCHANGED <<idx, id_rows>>
        ELSE /\ id_rows' = IdRowsAfter(id_rows, idregdocument, found)
             /\ idx' = idx + 1
             /\ UNCHANGED <<pc, err>>
  /\ IdFrame

\* return fieldnames, data_rows; main goes on to address_parser
IdReturn ==
  /\ pc = "id_doc"
  /\ idx > Len(doc.idregdocs)
  /\ pc' = Following("id")
  /\ UNCHANGED <<err, idx, id_rows>>
  /\ IdFrame

NextId == \/ IdEnter
          \/ IdDocument
          \/ IdReturn

(***************************************************************************)
(* name_parser                                                             *)
(***************************************************************************)
name_fieldnames == <<"FixedRef", "DocumentedNameID", "Designation",
                     "Primary Entry", "Alias Type", "Low Quality", "Acronym",
                     "Script", "Name">>

\* str.lstrip(chars), str.rstrip(chars), str.strip(chars)
RECURSIVE LStrip(_, _)
LStrip(s, chars) ==
  IF s # "" /\ Head(s) \in chars THEN LStrip(Tail(s), chars) ELSE s

RECURSIVE RStrip(_, _)
RStrip(s, chars) ==
  IF s # "" /\ SubSeq(s, Len(s), Len(s)) \in chars
  THEN RStrip(SubSeq(s, 1, Len(s) - 1), chars)
  ELSE s

Strip(s, chars) == RStrip(LStrip(s, chars), chars)

\* the characters str.strip() removes
Whitespace == {" ", "\t", "\n", "\r"}

Slots == {"Last Name", "First Name", "Middle Name", "Maiden Name",
          "Patronymic", "Matronymic", "Nickname", "Entity Name",
          "Aircraft Name", "Vessel Name"}

\* the if/elif chain on name_part_type_id; Absent when no branch is taken
SlotOf(name_part_type_id) ==
  CASE name_part_type_id = "1520" -> "Last Name"
    [] name_part_type_id = "1521" -> "First Name"
    [] name_part_type_id = "1522" -> "Middle Name"
    [] name_part_type_id = "1523" -> "Maiden Name"
    [] name_part_type_id = "91708" -> "Patronymic"
    [] name_part_type_id = "91709" -> "Matronymic"
    [] name_part_type_id = "1528" -> "Nickname"
    [] name_part_type_id = "1525" -> "Entity Name"
    [] name_part_type_id = "1524" -> "Aircraft Name"
    [] name_part_type_id = "1526" -> "Vessel Name"
    [] OTHER -> Absent

\* the loop of format_name over name_parts: lines 577-600
RECURSIVE FillSlots(_, _)
FillSlots(name_dict, name_parts) ==
  IF name_parts = <<>> THEN name_dict
  ELSE LET part == Head(name_parts)
           name_part_value == Strip(part.text, {"\""})
           slot == SlotOf(Get(maps.name_part_type_map, part.NamePartGroupID, None))
       IN FillSlots(IF slot = Absent THEN name_dict
                    ELSE [name_dict EXCEPT ![slot] = name_part_value],
                    Tail(name_parts))

\* Render with the entity name tried before the nickname and no trimming
Render_EntityBeforeNickname(name_dict) ==
  IF Truthy(name_dict["Last Name"]) /\ Truthy(name_dict["First Name"])
  THEN name_dict["Last Name"] \o ", " \o name_dict["First Name"] \o " "
       \o name_dict["Middle Name"] \o " " \o name_dict["Maiden Name"]
  ELSE IF Truthy(name_dict["Last Name"]) THEN name_dict["Last Name"]
  ELSE IF /\ Truthy(name_dict["Patronymic"])
          /\ Truthy(name_dict["Matronymic"])
          /\ Truthy(name_dict["First Name"])
  THEN name_dict["Patronymic"] \o " " \o name_dict["Matronymic"] \o ", "
       \o name_dict["First Name"] \o " " \o name_dict["Middle Name"]
       \o " " \o name_dict["Maiden Name"]
  ELSE IF Truthy(name_dict["Entity Name"]) THEN name_dict["Entity Name"]
  ELSE IF Truthy(name_dict["Nickname"]) THEN name_dict["Nickname"]
  ELSE IF Truthy(name_dict["Aircraft Name"]) THEN name_dict["Aircraft Name"]
  ELSE IF Truthy(name_dict["Vessel Name"]) THEN name_dict["Vessel Name"]
  ELSE ""

\* the return chain of format_name: lines 602-620
Render(name_dict) ==
  IF Truthy(name_dict["Last Name"]) /\ Truthy(name_dict["First Name"])
  THEN Strip(name_dict["Last Name"] \o ", " \o name_dict["First Name"] \o " "
             \o name_dict["Middle Name"] \o " " \o name_dict["Maiden Name"],
             Whitespace)
  ELSE IF Truthy(name_dict["Last Name"]) THEN name_dict["Last Name"]
  ELSE IF /\ Truthy(name_dict["Patronymic"])
          /\ Truthy(name_dict["Matronymic"])
          /\ Truthy(name_dict["First Name"])
  THEN Strip(name_dict["Patronymic"] \o " " \o name_dict["Matronymic"] \o ", "
             \o name_dict["First Name"] \o " " \o name_dict["Middle Name"]
             \o " " \o name_dict["Maiden Name"], Whitespace)
  ELSE IF Truthy(name_dict["Nickname"]) THEN name_dict["Nickname"]
  ELSE IF Truthy(name_dict["Entity Name"]) THEN name_dict["Entity Name"]
  ELSE IF Truthy(name_dict["Aircraft Name"]) THEN name_dict["Aircraft Name"]
  ELSE IF Truthy(name_dict["Vessel Name"]) THEN name_dict["Vessel Name"]
  ELSE ""

format_name(name_parts) == Render(FillSlots([k \in Slots |-> ""], name_parts))

\* part.text.strip('"') on a NamePartValue without text
FormatRaises(name_parts) ==
  \E n \in 1..Len(name_parts) : name_parts[n].text = None

get_designation(party_subtype_id) ==
  CASE party_subtype_id = "1" -> "Vessel"
    [] party_subtype_id = "2" -> "Aircraft"
    [] party_subtype_id = "3" -> "Business"
    [] party_subtype_id = "4" -> "Individual"
    [] OTHER -> "Unknown"

\* The nested loops over DistinctParty, Profile, Identity, Alias and
\* DocumentedName as the sequence of loop heads they pass through, each
\* with the element whose attributes the head reads.
RECURSIVE NamesEvents(_)
NamesEvents(names) ==
  IF names = <<>> THEN <<>>
  ELSE <<[kind |-> "name", elem |-> Head(names)]>> \o NamesEvents(Tail(names))

RECURSIVE AliasesEvents(_)
AliasesEvents(aliases) ==
  IF aliases = <<>> THEN <<>>
  ELSE <<[kind |-> "alias", elem |-> Head(aliases)]>>
       \o NamesEvents(Head(aliases).names) \o AliasesEvents(Tail(aliases))

RECURSIVE IdentitiesEvents(_)
IdentitiesEvents(identities) ==
  IF identities = <<>> THEN <<>>
  ELSE AliasesEvents(Head(identities).aliases)
       \o IdentitiesEvents(Tail(identities))

RECURSIVE ProfilesEvents(_)
ProfilesEvents(profiles) ==
  IF profiles = <<>> THEN <<>>
  ELSE <<[kind |-> "profile", elem |-> Head(profiles)]>>
       \o IdentitiesEvents(Head(profiles).identities)
       \o ProfilesEvents(Tail(profiles))

RECURSIVE PartiesEvents(_)
PartiesEvents(parties) ==
  IF parties = <<>> THEN <<>>
  ELSE <<[kind |-> "party", elem |-> Head(parties)]>>
       \o ProfilesEvents(Head(parties).profiles)
       \o PartiesEvents(Tail(parties))

\* the record tuple of one DocumentedName: lines 661-685
NameRecord(locals, documented_name) ==
  LET name_parts == documented_name.parts
      script_id == IF name_parts # <<>> THEN name_parts[1].ScriptID ELSE "Unknown"
      acronym == IF name_parts # <<>> THEN name_parts[1].Acronym ELSE "false"
  IN <<locals.fixed_ref, documented_name.ID, locals.designation,
       locals.primary_entry, locals.alias_type, locals.low_quality, acronym,
       Get(maps.script_values, script_id, "Unknown"), format_name(name_parts)>>

\* Deduplicated without the membership test
Deduplicated_AlwaysAppend(rows, seen, record) == Append(rows, record)

\* lines 686-688: data_rows after the record has been looked up in seen_records
Deduplicated(rows, seen, record) ==
  IF record \notin seen THEN Append(rows, record) ELSE rows

NameFrame == UNCHANGED <<doc, maps, sub, identity_to_fixed_ref,
                         first_occurrence, data, non_latin_data, feature_rows,
                         id_rows, address_rows, sanctions_rows, wb>>

NoLocals == [fixed_ref |-> "", designation |-> "", alias_type |-> "",
             low_quality |-> "", primary_entry |-> "", record |-> <<>>]

\* lines 645-646: data_rows = [], seen_records = set()
NameEnter ==
  /\ pc = "name"
  /\ name_rows' = <<>>
  /\ seen_records' = {}
  /\ cur' = NoLocals
  /\ idx' = 1
  /\ pc' = "name_walk"
  /\ UNCHANGED err
  /\ NameFrame

AtNameEvent(kind) ==
  /\ pc = "name_walk"
  /\ idx <= Len(PartiesEvents(doc.parties))
  /\ PartiesEvents(doc.parties)[idx].kind = kind

NameElem == PartiesEvents(doc.parties)[idx].elem

\* for party in ...: fixed_ref = party.attrib["FixedRef"]
NameParty ==
  /\ AtNameEvent("party")
  /\ IF NameElem.FixedRef = Absent
     THEN /\ Abort("KeyError")
          /\ UNCHANGED <<idx, cur>>
     ELSE /\ cur' = [cur EXCEPT !.fixed_ref = NameElem.FixedRef]
          /\ idx' = idx + 1
          /\ UNCHANGED <<pc, err>>
  /\ UNCHANGED <<name_rows, seen_records>>
  /\ NameFrame

\* for profile in ...: lines 651-652
NameProfile ==
  /\ AtNameEvent("profile")
  /\ cur' = [cur EXCEPT !.designation = get_designation(NameElem.PartySubTypeID)]
  /\ idx' = idx + 1
  /\ UNCHANGED <<pc, err, name_rows, seen_records>>
  /\ NameFrame

\* for alias in ...: lines 656-659
NameAlias ==
  /\ AtNameEvent("alias")
  /\ cur' = [cur EXCEPT
               !.alias_type = Get(maps.alias_type_values, NameElem.AliasTypeID,
                                  "Unknown"),
               !.low_quality = NameElem.LowQuality,
               !.primary_entry = NameElem.Primary]
  /\ idx' = idx + 1
  /\ UNCHANGED <<pc, err, name_rows, seen_records>>
  /\ NameFrame

\* for documented_name in ...: lines 661-688
NameDocumentedName ==
  /\ AtNameEvent("name")
  /\ IF FormatRaises(NameElem.parts)
     THEN /\ Abort("AttributeError")
          /\ UNCHANGED <<idx, cur, name_rows, seen_records>>
     ELSE /\ cur' = [cur EXCEPT !.record = NameRecord(cur, NameElem)]
          /\ name_rows' = Deduplicated(name_rows, seen_records, cur'.record)
          /\ seen_records' = seen_records \cup {cur'.record}
          /\ idx' = idx + 1
          /\ UNCHANGED <<pc, err>>
  /\ NameFrame

\* return fieldnames, data_rows; main goes on to sanctions_entries_parser
NameReturn ==
  /\ pc = "name_walk"
  /\ idx > Len(PartiesEvents(doc.parties))
  /\ pc' = Following("name")
  /\ UNCHANGED <<err, idx, cur, name_rows, seen_records>>
  /\ NameFrame

NextName == \/ NameEnter
            \/ NameParty
            \/ NameProfile
            \/ NameAlias
            \/ NameDocumentedName
            \/ NameReturn

(***************************************************************************)
(* sanctions_entries_parser                                                *)
(***************************************************************************)
sanctions_entries_fieldnames == <<"FixedRef", "ListID", "SanctionsTypeID",
                                  "SanctionsProgramID">>

\* sanctions_program_id: lines 707-710 (comment.text may be None)
ProgramOf(measure) == TextOrEmpty(measure.Comment)

\* the rows of one SanctionsEntry: lines 698-713
RECURSIVE MeasureRows(_, _, _)
MeasureRows(entry_id, list_name, measures) ==
  IF measures = <<>> THEN <<>>
  ELSE <<<<entry_id, list_name,
           Get(maps.sanctions_type, AttrGet(Head(measures).SanctionsTypeID),
               "Unknown Type"),
           ProgramOf(Head(measures))>>>>
       \o MeasureRows(entry_id, list_name, Tail(measures))

\* EntryRows giving an entry without measures a row of its own
EntryRows_RowPerEntry(entry) ==
  IF entry.measures = <<>>
  THEN <<<<AttrGet(entry.ID),
           Get(maps.list_id, AttrGet(entry.ListID), "Unknown List"), "", "">>>>
  ELSE MeasureRows(AttrGet(entry.ID),
                   Get(maps.list_id, AttrGet(entry.ListID), "Unknown List"),
                   entry.measures)

\* the rows of one SanctionsEntry: lines 697-713
EntryRows(entry) ==
  MeasureRows(AttrGet(entry.ID),
              Get(maps.list_id, AttrGet(entry.ListID), "Unknown List"),
              entry.measures)

SanctionsFrame == UNCHANGED <<doc, maps, err, sub, cur, identity_to_fixed_ref,
                              first_occurrence, data, non_latin_data,
                              seen_records, feature_rows, id_rows, address_rows,
                              name_rows, wb>>

\* line 695: data_rows = []
SanctionsEnter ==
  /\ pc = "sanctions"
  /\ sanctions_rows' = <<>>
  /\ idx' = 1
  /\ pc' = "sanctions_entry"
  /\ SanctionsFrame

\* one iteration over SanctionsEntry
SanctionsEntry ==
  /\ pc = "sanctions_entry"
  /\ idx <= Len(doc.entries)
  /\ sanctions_rows' = sanctions_rows \o EntryRows(doc.entries[idx])
  /\ idx' = idx + 1
  /\ UNCHANGED pc
  /\ SanctionsFrame

\* return fieldnames, data_rows; main goes on to build the workbook
SanctionsReturn ==
  /\ pc = "sanctions_entry"
  /\ idx > Len(doc.entries)
  /\ pc' = Following("sanctions")
  /\ UNCHANGED <<idx, sanctions_rows>>
  /\ SanctionsFrame

NextSanctions == \/ SanctionsEnter
                 \/ SanctionsEntry
                 \/ SanctionsReturn

(***************************************************************************)
(* get_mappings and main                                                   *)
(***************************************************************************)
\* the reference domains get_mappings reads with root.find(...).findall(...)
FoundDomains == <<"country", "doc_type", "list_id", "sanctions_type",
                  "feature_type", "reliability", "detail_reference">>

\* the reference domains main reads with root.findall(".//ns:XValues/ns:X")
ListedDomains == <<"script_values", "party_subtype_values",
                   "alias_type_values", "name_part_type_map">>

\* mapping[elem.attrib["ID"]] = elem.text for each element of a value list
\* (elem.attrib["NamePartTypeID"] for a NamePartGroup)
RECURSIVE Collect(_, _)
Collect(m, elements) ==
  IF elements = <<>> THEN m
  ELSE Collect(Put(m, Head(elements).ID, Head(elements).text), Tail(elements))

\* a value-list subtree of the document: <<>> when the document has none,
\* else <<its elements>>
ElementsOf(subtree) == IF subtree = <<>> THEN <<>> ELSE subtree[1]

\* root.find(".//ns:CountryValues", ns) is None and .findall is called on it
MappingsRaise(values) ==
  \E n \in 1..Len(FoundDomains) : values[FoundDomains[n]] = <<>>

MainFrame == UNCHANGED <<idx, sub, cur, identity_to_fixed_ref,
                         first_occurrence, data, non_latin_data, seen_records,
                         feature_rows, id_rows, address_rows, name_rows,
                         sanctions_rows>>

\* line 718: download_xml returns True, or False after a request error
Download ==
  /\ pc = "download"
  /\ \E ok \in BOOLEAN : pc' = IF ok THEN Following("download") ELSE "not_downloaded"
  /\ UNCHANGED <<doc, maps, err, wb>>
  /\ MainFrame

\* line 719: tree, root = parse_xml(XML_FILE_PATH)
Parse ==
  /\ pc = "parse"
  /\ pc' = Following("parse")
  /\ UNCHANGED <<doc, maps, err, wb>>
  /\ MainFrame

\* lines 720-728: get_mappings(root, NAMESPACE)
GetMappings ==
  /\ pc = "get_mappings"
  /\ IF MappingsRaise(doc.values)
     THEN /\ Abort("AttributeError")
          /\ UNCHANGED maps
     ELSE /\ maps' = [d \in DOMAIN maps |->
                        IF d \in SeqToSet(FoundDomains)
                        THEN Collect(EmptyMap, ElementsOf(doc.values[d]))
                        ELSE maps[d]]
          /\ pc' = Following("get_mappings")
          /\ UNCHANGED err
  /\ UNCHANGED <<doc, wb>>
  /\ MainFrame

\* lines 731-752: the four dict comprehensions over root.findall(...)
NameMappings ==
  /\ pc = "name_maps"
  /\ maps' = [d \in DOMAIN maps |->
                IF d \in SeqToSet(ListedDomains)
                THEN Collect(EmptyMap, ElementsOf(doc.values[d]))
                ELSE maps[d]]
  /\ pc' = Following("name_maps")
  /\ UNCHANGED <<doc, err, wb>>
  /\ MainFrame

NextMappings == \/ GetMappings
                \/ NameMappings

\* [row[field] for field in fieldnames]
RowList(row, fieldnames) == [n \in 1..Len(fieldnames) |-> row[fieldnames[n]]]

\* WithCountryRelevance calling setdefault without its default value
WithCountryRelevance_None(row) ==
  IF "CountryRelevanceID" \in DOMAIN row THEN row
  ELSE [k \in DOMAIN row \cup {"CountryRelevanceID"} |->
          IF k = "CountryRelevanceID" THEN None ELSE row[k]]

\* row.setdefault("CountryRelevanceID", "")
WithCountryRelevance(row) ==
  IF "CountryRelevanceID" \in DOMAIN row THEN row
  ELSE [k \in DOMAIN row \cup {"CountryRelevanceID"} |->
          IF k = "CountryRelevanceID" THEN "" ELSE row[k]]

RowLists(rows, fieldnames) ==
  [n \in 1..Len(rows) |-> RowList(rows[n], fieldnames)]

\* ws = wb.create_sheet(title); ws.append(fieldnames); ws.append(row) for
\* each row
WithSheet(workbook, title, fieldnames, rows) ==
  [workbook EXCEPT !.sheets =
     Append(@, [title |-> title, rows |-> <<fieldnames>> \o rows])]

\* RemoveDefault leaving the sheet that Workbook() created
RemoveDefault_Keep(sheets) == sheets

\* lines 824-825: if "Sheet" in wb.sheetnames: wb.remove(wb["Sheet"])
RemoveDefault(sheets) == SelectSeq(sheets, LAMBDA sheet : sheet.title # "Sheet")

WorkbookFrame == UNCHANGED <<doc, maps, err>>

\* line 795: wb = Workbook(), which holds one sheet titled "Sheet"
NewWorkbook ==
  /\ pc = "workbook"
  /\ wb' = [sheets |-> <<[title |-> "Sheet", rows |-> <<>>]>>, saved |-> FALSE]
  /\ pc' = Following("workbook")
  /\ WorkbookFrame
  /\ MainFrame

\* lines 797-800
SheetFeature ==
  /\ pc = "sheet_FEATURE"
  /\ wb' = WithSheet(wb, "FEATURE", feature_fieldnames,
                     RowLists(feature_rows, feature_fieldnames))
  /\ pc' = Following("sheet_FEATURE")
  /\ WorkbookFrame
  /\ MainFrame

\* lines 802-805
SheetId ==
  /\ pc = "sheet_ID"
  /\ wb' = WithSheet(wb, "ID", id_fieldnames, RowLists(id_rows, id_fieldnames))
  /\ pc' = Following("sheet_ID")
  /\ WorkbookFrame
  /\ MainFrame

\* lines 807-812: the rows of address_parser get their CountryRelevanceID here
SheetAddress ==
  /\ pc = "sheet_ADDRESS"
  /\ address_rows' = [n \in 1..Len(address_rows) |->
                        WithCountryRelevance(address_rows[n])]
  /\ wb' = WithSheet(wb, "ADDRESS", address_fieldnames,
                     RowLists(address_rows', address_fieldnames))
  /\ pc' = Following("sheet_ADDRESS")
  /\ WorkbookFrame
  /\ UNCHANGED <<idx, sub, cur, identity_to_fixed_ref, first_occurrence, data,
                 non_latin_data, seen_records, feature_rows, id_rows, name_rows,
                 sanctions_rows>>

\* lines 814-817
SheetSanctions ==
  /\ pc = "sheet_SANCTIONS_ENTRIES"
  /\ wb' = WithSheet(wb, "SANCTIONS_ENTRIES", sanctions_entries_fieldnames,
                     sanctions_rows)
  /\ pc' = Following("sheet_SANCTIONS_ENTRIES")
  /\ WorkbookFrame
  /\ MainFrame

\* lines 819-822
SheetName ==
  /\ pc = "sheet_NAME"
  /\ wb' = WithSheet(wb, "NAME", name_fieldnames, name_rows)
  /\ pc' = Following("sheet_NAME")
  /\ WorkbookFrame
  /\ MainFrame

\* lines 824-825
RemoveDefaultSheet ==
  /\ pc = "remove_default"
  /\ wb' = [wb EXCEPT !.sheets = RemoveDefault(@)]
  /\ pc' = Following("remove_default")
  /\ WorkbookFrame
  /\ MainFrame

\* line 827: wb.save(XLSX_FILE_PATH)
Save ==
  /\ pc = "save"
  /\ wb' = [wb EXCEPT !.saved = TRUE]
  /\ pc' = Following("save")
  /\ WorkbookFrame
  /\ MainFrame

NextWorkbook == \/ NewWorkbook
                \/ SheetFeature
                \/ SheetId
                \/ SheetAddress
                \/ SheetSanctions
                \/ SheetName
                \/ RemoveDefaultSheet
                \/ Save

NextExtractors == \/ NextFeature
                  \/ NextId
                  \/ NextAddress
                  \/ NextName
                  \/ NextSanctions

Next == \/ Download
        \/ Parse
        \/ NextMappings
        \/ NextExtractors
        \/ NextWorkbook

(***************************************************************************)
(* Initial states                                                          *)
(***************************************************************************)
NoMaps == [country |-> EmptyMap, doc_type |-> EmptyMap, list_id |-> EmptyMap,
           sanctions_type |-> EmptyMap, feature_type |-> EmptyMap,
           reliability |-> EmptyMap, detail_reference |-> EmptyMap,
           script_values |-> EmptyMap, party_subtype_values |-> EmptyMap,
           alias_type_values |-> EmptyMap, name_part_type_map |-> EmptyMap]

AllDomains == SeqToSet(FoundDomains) \cup SeqToSet(ListedDomains)

NoValues == [d \in AllDomains |-> <<>>]

EmptyDoc == [values |-> NoValues, parties |-> <<>>, idregdocs |-> <<>>,
             locations |-> <<>>, entries |-> <<>>]

NoWorkbook == [sheets |-> <<>>, saved |-> FALSE]

\* the state in which main (or one extractor, called on d with mappings m)
\* starts at position start
StartAt(d, m, start) ==
  /\ doc = d
  /\ maps = m
  /\ pc = start
  /\ err = None
  /\ idx = 1
  /\ sub = 1
  /\ cur = EmptyMap
  /\ identity_to_fixed_ref = EmptyMap
  /\ first_occurrence = {}
  /\ data = EmptyMap
  /\ non_latin_data = <<>>
  /\ seen_records = {}
  /\ feature_rows = <<>>
  /\ id_rows = <<>>
  /\ address_rows = <<>>
  /\ name_rows = <<>>
  /\ sanctions_rows = <<>>
  /\ wb = NoWorkbook

Identity(id, fixed_ref) == [ID |-> id, FixedRef |-> fixed_ref, aliases |-> <<>>]

Profile(subtype, identities) ==
  [PartySubTypeID |-> subtype, identities |-> identities]

Party(fixed_ref, profiles) ==
  [FixedRef |-> fixed_ref, profiles |-> profiles, features |-> <<>>]

\* the Locations of the address runs: at most one LocationPart holding one
\* LocationPartValue each
AddrPartValues == [Value : {Absent, "Paris"},
                   Comment : {Absent, None, "Cyrillic", "Latin"}]

AddrParts == {<<>>} \cup
             {<<[LocPartTypeID |-> t, values |-> <<v>>]>> :
                t \in {"1454", "9"}, v \in AddrPartValues}

AddrLocations == [ID : {"L1", "L2"}, AreaCodeID : {Absent},
                  CountryID : {"c1"}, IDRegDocumentID : {"i1"},
                  parts : AddrParts]

AddrParties == {<<>>,
                <<Party("100", <<Profile("4", <<Identity("i1", "100")>>)>>)>>}

InitAddress ==
  \E locations \in SeqsUpTo(AddrLocations, MaxLocs), parties \in AddrParties :
    StartAt([EmptyDoc EXCEPT !.locations = locations, !.parties = parties],
            [NoMaps EXCEPT !.country = [c \in {"c1"} |-> "France"]],
            "address")

SpecAddress == InitAddress /\ [][NextAddress]_vars

(***************************************************************************)
(* C1: for every Location identifier exactly one returned row carrying it  *)
(* is tagged "Latin"; every other row carrying it has a non-empty Script   *)
(* Type other than "Latin" that is the non-empty comment of a              *)
(* LocationPartValue of a Location with that identifier.                   *)
(***************************************************************************)
FromCommentedValue(row) ==
  \E n \in 1..Len(doc.locations) :
    /\ doc.locations[n].ID = row["ID"]
    /\ \E v \in SeqToSet(PartValues(doc.locations[n].parts)) :
         /\ Truthy(TextOrEmpty(v.Comment))
         /\ TextOrEmpty(v.Comment) = row["Script Type"]

LatinRowsOf(id) == {n \in 1..Len(address_rows) :
                      /\ address_rows[n]["ID"] = id
                      /\ address_rows[n]["Script Type"] = "Latin"}

C1_ExactlyOneLatinRow ==
  pc = "name" =>
    \A n \in 1..Len(address_rows) :
      /\ Cardinality(LatinRowsOf(address_rows[n]["ID"])) = 1
      /\ address_rows[n]["Script Type"] # "Latin" =>
           /\ address_rows[n]["Script Type"] # ""
           /\ FromCommentedValue(address_rows[n])


(***************************************************************************)
(* id_parser runs                                                          *)
(***************************************************************************)
StartDate == [Year |-> "2020", Month |-> "1", Day |-> "15"]

IdDocuments ==
  [IdentityID : {"i1", "i2", "i9"},
   IDRegDocTypeID : {"1571", "7"},
   IssuingAuthority : {Absent},
   IssuedByCountryID : {Absent, "c1"},
   IDRegistrationNo : {"X1"},
   dates : {<<>>, <<[IDRegDocDateTypeID |-> "1480",
                     DatePeriod |-> <<[Start |-> <<StartDate>>, End |-> <<>>]>>]>>}]

\* two parties with one Identity each; the Identity elements may share an ID,
\* and the first one's own FixedRef attribute may differ from its party's or
\* be missing
IdParties ==
  {<<Party("100", <<Profile("4", <<Identity("i1", f)>>)>>),
     Party("200", <<Profile("3", <<Identity(b, "200")>>)>>)>> :
     f \in {"100", "999", Absent}, b \in {"i1", "i2"}}

InitId ==
  \E idregdocs \in SeqsUpTo(IdDocuments, MaxDocs), parties \in IdParties :
    StartAt([EmptyDoc EXCEPT !.idregdocs = idregdocs, !.parties = parties],
            [NoMaps EXCEPT !.country = [c \in {"c1"} |-> "France"],
                           !.doc_type = [c \in {"1571"} |-> "Passport"]],
            "id")

SpecId == InitId /\ [][NextId]_vars

Resolvable(idregdocument) ==
  FindIdentity(doc.parties, idregdocument.IdentityID) # <<>>

ResolvableDocs == SelectSeq(doc.idregdocs, Resolvable)

\* the FixedRef of the parties that own an Identity with this ID
OwnerFixedRefs(identity_id) ==
  {doc.parties[n].FixedRef : n \in
     {m \in 1..Len(doc.parties) :
        \E i \in SeqToSet(IdentitiesOf(doc.parties[m].profiles)) :
          i.ID = identity_id}}

(***************************************************************************)
(* C2: every IDRegDocument whose IdentityID is the ID of an Identity under *)
(* a DistinctParty's Profile gets exactly one row, whose FixedRef is the   *)
(* FixedRef of the DistinctParty owning that Identity.                     *)
(***************************************************************************)
C2_RowCarriesOwningPartyFixedRef ==
  /\ pc = "aborted" => ResolvableDocs = <<>>
  /\ pc = "address" =>
       /\ Len(id_rows) = Len(ResolvableDocs)
       /\ \A k \in 1..Len(id_rows) :
            /\ id_rows[k]["Document_Type_ID"] = ResolvableDocs[k].IDRegDocTypeID
            /\ id_rows[k]["FixedRef"] \in
                 OwnerFixedRefs(ResolvableDocs[k].IdentityID)

(***************************************************************************)
(* C3: an IDRegDocument whose IdentityID matches no Identity gets no row   *)
(* and causes no error (id_parser stops only at a document whose Identity  *)
(* was found); the returned rows are exactly the rows of the other         *)
(* documents, in document order.                                           *)
(***************************************************************************)
C3_UnresolvedDocumentSkipped ==
  /\ pc = "aborted" =>
       LET found == FindIdentity(doc.parties, doc.idregdocs[idx].IdentityID)
       IN found # <<>> /\ found[1].FixedRef = Absent
  /\ pc = "address" =>
       /\ Len(id_rows) = Len(ResolvableDocs)
       /\ \A k \in 1..Len(id_rows) :
            id_rows[k] =
              IdRow(ResolvableDocs[k],
                    FindIdentity(doc.parties, ResolvableDocs[k].IdentityID)[1])

\* id_parser has returned after skipping an unresolvable document that is
\* followed by a resolvable one
C3_Witness ==
  /\ pc = "address"
  /\ Len(id_rows) >= 1
  /\ \E n, m \in 1..Len(doc.idregdocs) :
       /\ n < m
       /\ ~Resolvable(doc.idregdocs[n])
       /\ Resolvable(doc.idregdocs[m])


(***************************************************************************)
(* name_parser runs                                                        *)
(***************************************************************************)
NamePart(group, text) ==
  [NamePartGroupID |-> group, text |-> text, ScriptID |-> "215",
   Acronym |-> "false"]

\* NamePartGroup ID -> NamePartTypeID; group "G0" is not in the table and
\* group "G9" has a type no branch of format_name knows
NameGroups ==
  [g \in {"G1520", "G1521", "G1522", "G1523", "G91708", "G91709", "G1528",
          "G1525", "G1524", "G1526", "G9"} |->
     IF g = "G9" THEN "9999" ELSE Tail(g)]

NameMaps == [NoMaps EXCEPT !.name_part_type_map = NameGroups,
                           !.script_values = [c \in {"215"} |-> "Latin"],
                           !.alias_type_values = [c \in {"1400"} |-> "A.K.A."]]

NameParties(aliases) ==
  <<[FixedRef |-> "100",
     profiles |-> <<[PartySubTypeID |-> "4",
                     identities |-> <<[ID |-> "i1", FixedRef |-> "100",
                                       aliases |-> aliases]>>]>>,
     features |-> <<>>]>>

DocumentedNames == [ID : {"n1", "n2"},
                    parts : {<<>>, <<NamePart("G1520", "Doe")>>,
                             <<NamePart("G1520", None)>>}]

\* an Alias holds one DocumentedName, or the same DocumentedName twice
NameAliases ==
  [AliasTypeID : {"1400"}, LowQuality : {"false"}, Primary : {"true", "false"},
   names : {<<d>> : d \in DocumentedNames} \cup {<<d, d>> : d \in DocumentedNames}]

InitName ==
  \E aliases \in SeqsUpTo(NameAliases, MaxAliases) :
    StartAt([EmptyDoc EXCEPT !.parties = NameParties(aliases)], NameMaps, "name")

SpecName == InitName /\ [][NextName]_vars

\* the candidate rows in traversal order: Party, Profile, Identity, Alias,
\* DocumentedName
RECURSIVE CandidatesOfNames(_, _)
CandidatesOfNames(locals, names) ==
  IF names = <<>> THEN <<>>
  ELSE <<NameRecord(locals, Head(names))>> \o CandidatesOfNames(locals, Tail(names))

RECURSIVE CandidatesOfAliases(_, _, _)
CandidatesOfAliases(fixed_ref, designation, aliases) ==
  IF aliases = <<>> THEN <<>>
  ELSE CandidatesOfNames(
         [fixed_ref |-> fixed_ref, designation |-> designation,
          alias_type |-> Get(maps.alias_type_values, Head(aliases).AliasTypeID,
                             "Unknown"),
          low_quality |-> Head(aliases).LowQuality,
          primary_entry |-> Head(aliases).Primary],
         Head(aliases).names)
       \o CandidatesOfAliases(fixed_ref, designation, Tail(aliases))

RECURSIVE CandidatesOfIdentities(_, _, _)
CandidatesOfIdentities(fixed_ref, designation, identities) ==
  IF identities = <<>> THEN <<>>
  ELSE CandidatesOfAliases(fixed_ref, designation, Head(identities).aliases)
       \o CandidatesOfIdentities(fixed_ref, designation, Tail(identities))

RECURSIVE CandidatesOfProfiles(_, _)
CandidatesOfProfiles(fixed_ref, profiles) ==
  IF profiles = <<>> THEN <<>>
  ELSE CandidatesOfIdentities(fixed_ref,
                              get_designation(Head(profiles).PartySubTypeID),
                              Head(profiles).identities)
       \o CandidatesOfProfiles(fixed_ref, Tail(profiles))

RECURSIVE CandidatesOfParties(_)
CandidatesOfParties(parties) ==
  IF parties = <<>> THEN <<>>
  ELSE CandidatesOfProfiles(Head(parties).FixedRef, Head(parties).profiles)
       \o CandidatesOfParties(Tail(parties))

\* s with every repetition after the first occurrence removed
RECURSIVE FirstOccurrences(_, _)
FirstOccurrences(s, n) ==
  IF n > Len(s) THEN <<>>
  ELSE (IF \E m \in 1..(n - 1) : s[m] = s[n] THEN <<>> ELSE <<s[n]>>)
       \o FirstOccurrences(s, n + 1)

(***************************************************************************)
(* C9: name_parser's row list never holds two rows equal on all nine       *)
(* columns, and the returned list is the sequence of candidate rows in     *)
(* traversal order with every repetition after the first removed.          *)
(***************************************************************************)
C9_NameRowsDeduplicated ==
  /\ \A n, m \in 1..Len(name_rows) : name_rows[n] = name_rows[m] => n = m
  /\ pc = "sanctions" =>
       name_rows = FirstOccurrences(CandidatesOfParties(doc.parties), 1)

\* name_parser has returned at least two rows after dropping a repetition
C9_Witness ==
  /\ pc = "sanctions"
  /\ Len(name_rows) >= 2
  /\ Len(CandidatesOfParties(doc.parties)) > Len(name_rows)

(***************************************************************************)
(* format_name runs: one DocumentedName with one part for each role of a   *)
(* chosen set of roles                                                     *)
(***************************************************************************)
SlotOrder == <<"Last Name", "First Name", "Middle Name", "Maiden Name",
               "Patronymic", "Matronymic", "Nickname", "Entity Name",
               "Aircraft Name", "Vessel Name">>

GroupOfSlot ==
  [k \in Slots |->
     CASE k = "Last Name" -> "G1520"
       [] k = "First Name" -> "G1521"
       [] k = "Middle Name" -> "G1522"
       [] k = "Maiden Name" -> "G1523"
       [] k = "Patronymic" -> "G91708"
       [] k = "Matronymic" -> "G91709"
       [] k = "Nickname" -> "G1528"
       [] k = "Entity Name" -> "G1525"
       [] k = "Aircraft Name" -> "G1524"
       [] k = "Vessel Name" -> "G1526"]

TextOfSlot ==
  [k \in Slots |->
     CASE k = "Last Name" -> "Doe"
       [] k = "First Name" -> "Jane"
       [] k = "Middle Name" -> "\"Q\""
       [] k = "Maiden Name" -> "Roe"
       [] k = "Patronymic" -> "Pat"
       [] k = "Matronymic" -> "Mat"
       [] k = "Nickname" -> "\"JD\""
       [] k = "Entity Name" -> "Acme Corp"
       [] k = "Aircraft Name" -> "Air"
       [] k = "Vessel Name" -> "Ship"]

\* one part per chosen role, in SlotOrder
RECURSIVE PartsFor(_, _)
PartsFor(order, chosen) ==
  IF order = <<>> THEN <<>>
  ELSE (IF Head(order) \in chosen
        THEN <<NamePart(GroupOfSlot[Head(order)], TextOfSlot[Head(order)])>>
        ELSE <<>>)
       \o PartsFor(Tail(order), chosen)

\* parts that fill no slot, that fill a slot a second time, or that empty it
ExtraParts ==
  {<<>>,
   <<NamePart("G0", "Zed"), NamePart("G9", "Nine")>>,
   <<NamePart("G1520", "Smith")>>,
   <<NamePart("G1521", "\"\"")>>,
   <<NamePart("G1520", "\"\""), NamePart("G1528", "Jay")>>,
   <<NamePart("G1520", " Lee"), NamePart("G1523", " ")>>}

InitFormat ==
  \E chosen \in SUBSET Slots, extra \in ExtraParts :
    StartAt([EmptyDoc EXCEPT !.parties =
               NameParties(<<[AliasTypeID |-> "1400", LowQuality |-> "false",
                              Primary |-> "true",
                              names |-> <<[ID |-> "n1",
                                           parts |-> PartsFor(SlotOrder, chosen)
                                                     \o extra]>>]>>)],
            NameMaps, "name")

SpecFormat == InitFormat /\ [][NextName]_vars

\* the value of a role slot: the text, without surrounding quote characters,
\* of the last part in document order whose group resolves to the role
SlotValue(parts, slot) ==
  LET hits == {n \in 1..Len(parts) :
                 SlotOf(Get(maps.name_part_type_map, parts[n].NamePartGroupID,
                            None)) = slot}
      last == CHOOSE n \in hits : \A m \in hits : m <= n
  IN IF hits = {} THEN "" ELSE Strip(parts[last].text, {"\""})

ExpectedName(parts) ==
  LET v(slot) == SlotValue(parts, slot)
  IN CASE v("Last Name") # "" /\ v("First Name") # "" ->
            Strip(v("Last Name") \o ", " \o v("First Name") \o " "
                  \o v("Middle Name") \o " " \o v("Maiden Name"), Whitespace)
       [] v("Last Name") # "" /\ v("First Name") = "" -> v("Last Name")
       [] /\ v("Last Name") = ""
          /\ v("Patronymic") # "" /\ v("Matronymic") # "" /\ v("First Name") # "" ->
            Strip(v("Patronymic") \o " " \o v("Matronymic") \o ", "
                  \o v("First Name") \o " " \o v("Middle Name") \o " "
                  \o v("Maiden Name"), Whitespace)
       [] OTHER ->
            LET rest == SelectSeq(<<"Nickname", "Entity Name", "Aircraft Name",
                                    "Vessel Name">>, LAMBDA k : v(k) # "")
            IN IF rest = <<>> THEN "" ELSE v(rest[1])

\* the DocumentedName the walk has just processed
JustFormatted ==
  /\ pc \in {"name_walk", "sanctions"}
  /\ idx > 1
  /\ PartiesEvents(doc.parties)[idx - 1].kind = "name"

(***************************************************************************)
(* C10: the Name of a DocumentedName is "{last}, {first} {middle}          *)
(* {maiden}" trimmed when last and first are present; else the last name;  *)
(* else "{patronymic} {matronymic}, {first} {middle} {maiden}" trimmed     *)
(* when those three are present; else the first present of nickname,       *)
(* entity, aircraft and vessel name; else the empty string.  A part of an  *)
(* unmapped group fills no slot and the last part of a role fills it.      *)
(***************************************************************************)
C10_FormatNamePriority ==
  JustFormatted =>
    cur.record[9] = ExpectedName(PartiesEvents(doc.parties)[idx - 1].elem.parts)

\* a name rendered from the patronymic branch with a slot filled twice
C10_Witness ==
  /\ JustFormatted
  /\ LET parts == PartiesEvents(doc.parties)[idx - 1].elem.parts
     IN /\ SlotValue(parts, "Last Name") = ""
        /\ SlotValue(parts, "Patronymic") # ""
        /\ SlotValue(parts, "Matronymic") # ""
        /\ SlotValue(parts, "First Name") # ""
        /\ SlotValue(parts, "Nickname") = "Jay"
        /\ cur.record[9] = "Pat Mat, Jane Q Roe"


(***************************************************************************)
(* Runs of get_mappings and of main                                        *)
(***************************************************************************)
\* one element per value list
ReferenceElements ==
  [d \in AllDomains |->
     CASE d = "country" -> <<[ID |-> "c1", text |-> "France"]>>
       [] d = "doc_type" -> <<[ID |-> "1571", text |-> "Passport"]>>
       [] d = "list_id" -> <<[ID |-> "1550", text |-> "SDN List"]>>
       [] d = "sanctions_type" -> <<[ID |-> "1", text |-> "Program"]>>
       [] d = "feature_type" -> <<[ID |-> "25", text |-> "Title"],
                                  [ID |-> "26", text |-> "Location"]>>
       [] d = "reliability" -> <<[ID |-> "1", text |-> "Confirmed"]>>
       [] d = "detail_reference" -> <<[ID |-> "91", text |-> "Male"]>>
       [] d = "script_values" -> <<[ID |-> "215", text |-> "Latin"]>>
       [] d = "party_subtype_values" -> <<[ID |-> "4", text |-> "Individual"]>>
       [] d = "alias_type_values" -> <<[ID |-> "1400", text |-> "A.K.A."]>>
       [] d = "name_part_type_map" -> <<[ID |-> "G1520", text |-> "1520"],
                                        [ID |-> "G1521", text |-> "1521"]>>]

FullValues == [d \in AllDomains |-> <<ReferenceElements[d]>>]

InitMappings ==
  \E present \in SUBSET AllDomains :
    StartAt([EmptyDoc EXCEPT !.values =
               [d \in AllDomains |->
                  IF d \in present THEN <<ReferenceElements[d]>> ELSE <<>>]],
            NoMaps, "get_mappings")

SpecMappings == InitMappings /\ [][NextMappings]_vars

(***************************************************************************)
(* C5: when the document has no value-list subtree for a reference domain  *)
(* the loader yields an empty mapping for it and the run continues.        *)
(***************************************************************************)
C5_MissingSubtreeYieldsEmptyMapping ==
  /\ pc # "aborted"
  /\ pc = "feature" =>
       \A d \in AllDomains : doc.values[d] = <<>> => maps[d] = EmptyMap

TextFeature ==
  [FeatureTypeID |-> "25",
   version |-> [ReliabilityID |-> "1", Comment |-> Absent,
                VersionDetail |-> <<[DetailTypeID |-> "1432",
                                     DetailReferenceID |-> Absent,
                                     text |-> "Director", CountryID |-> Absent,
                                     DatePeriod |-> <<>>]>>,
                VersionLocation |-> <<>>]]

\* a party of the runs of main: its FixedRef and that of its Identity may
\* be missing, and its one name part may have no text
MainParties ==
  {[FixedRef |-> f,
    profiles |-> <<[PartySubTypeID |-> "4",
                    identities |->
                      <<[ID |-> "i1", FixedRef |-> g,
                         aliases |->
                           <<[AliasTypeID |-> "1400", LowQuality |-> "false",
                              Primary |-> "true",
                              names |-> <<[ID |-> "n1",
                                           parts |-> <<NamePart("G1520", t)>>]>>]>>]>>]>>,
    features |-> <<TextFeature>>] :
     f \in {"100", Absent}, g \in {"100", Absent}, t \in {"Doe", None}}

MainDocument ==
  [IdentityID |-> "i1", IDRegDocTypeID |-> "1571", IssuingAuthority |-> Absent,
   IssuedByCountryID |-> "c1", IDRegistrationNo |-> "X1", dates |-> <<>>]

MainLocation ==
  [ID |-> "L1", AreaCodeID |-> Absent, CountryID |-> "c1",
   IDRegDocumentID |-> "i1",
   parts |-> <<[LocPartTypeID |-> "1454",
                values |-> <<[Value |-> "Paris", Comment |-> Absent],
                             [Value |-> "Parizh", Comment |-> "Cyrillic"]>>]>>]

MainEntry ==
  [ID |-> "e1", ListID |-> "1550",
   measures |-> <<[SanctionsTypeID |-> "1", Comment |-> "SDGT"]>>]

Init ==
  \E parties \in SeqsUpTo(MainParties, MaxParties),
     idregdocs \in {<<>>, <<MainDocument>>},
     locations \in {<<>>, <<MainLocation>>},
     entries \in {<<>>, <<MainEntry>>},
     values \in {FullValues, [FullValues EXCEPT !["country"] = <<>>]} :
    StartAt([values |-> values, parties |-> parties, idregdocs |-> idregdocs,
             locations |-> locations, entries |-> entries],
            NoMaps, "download")

Spec == Init /\ [][Next]_vars

SheetTitles == <<"FEATURE", "ID", "ADDRESS", "SANCTIONS_ENTRIES", "NAME">>

Titles == [n \in 1..Len(wb.sheets) |-> wb.sheets[n].title]

(***************************************************************************)
(* C6: when an extractor aborts, the error leaves main before a workbook   *)
(* exists: no sheet has been created, no row appended, nothing saved; a    *)
(* run that reaches the end of main has created all five sheets and then   *)
(* saved the workbook.                                                     *)
(***************************************************************************)
C6_AllOrNothing ==
  /\ pc = "aborted" => wb = NoWorkbook
  /\ wb.saved => SeqToSet(SheetTitles) \subseteq SeqToSet(Titles)
  /\ pc = "done" => wb.saved

\* feature_parser aborted on a party without FixedRef after it had built a row
C6_Witness ==
  /\ pc = "aborted"
  /\ err = "KeyError"
  /\ feature_rows # <<>>
  /\ \E n \in 1..Len(doc.parties) : doc.parties[n].FixedRef = Absent

\* the rows the extractors returned, in sheet order
Returned == <<feature_rows, id_rows, address_rows, sanctions_rows, name_rows>>

Columns == <<feature_fieldnames, id_fieldnames, address_fieldnames,
             sanctions_entries_fieldnames, name_fieldnames>>

\* the cell of a returned row under a column: dict rows are read by column
\* name, list and tuple rows by position
Cell(s, row, c) == IF s \in {1, 2, 3} THEN row[Columns[s][c]] ELSE row[c]

FullMaps == [d \in AllDomains |-> Collect(EmptyMap, ReferenceElements[d])]

DefaultParty ==
  CHOOSE p \in MainParties :
    /\ p.FixedRef = "100"
    /\ p.profiles[1].identities[1].FixedRef = "100"
    /\ p.profiles[1].identities[1].aliases[1].names[1].parts[1].text = "Doe"

DefaultDoc ==
  [values |-> FullValues, parties |-> <<DefaultParty>>,
   idregdocs |-> <<MainDocument>>, locations |-> <<MainLocation>>,
   entries |-> <<MainEntry>>]

LookupDetail(reference) ==
  <<[DetailTypeID |-> "1431", DetailReferenceID |-> reference, text |-> None,
     CountryID |-> Absent, DatePeriod |-> <<>>]>>

TextDetail(text) ==
  <<[DetailTypeID |-> "1432", DetailReferenceID |-> Absent, text |-> text,
     CountryID |-> Absent, DatePeriod |-> <<>>]>>

FeatureVariants ==
  {[FeatureTypeID |-> t,
    version |-> [ReliabilityID |-> r, Comment |-> c, VersionDetail |-> d,
                 VersionLocation |-> l]] :
     t \in {"25", "26", "99"}, r \in {"1", "9", Absent},
     c \in {Absent, None, "note"},
     d \in {<<>>, LookupDetail("91"), LookupDetail("99"), TextDetail("Director"),
            TextDetail(None)},
     l \in {<<>>, <<[LocationID |-> "L1"]>>}}

DocumentVariants ==
  [IdentityID : {"i1"}, IDRegDocTypeID : {"1571", "99"},
   IssuingAuthority : {Absent, None, "Gov"},
   IssuedByCountryID : {Absent, "c1", "c9"},
   IDRegistrationNo : {Absent, None, "X1"}, dates : {<<>>}]

LocationVariants ==
  {[ID |-> "L1", AreaCodeID |-> a, CountryID |-> c, IDRegDocumentID |-> "i1",
    parts |-> <<[LocPartTypeID |-> "1454",
                 values |-> <<[Value |-> v, Comment |-> k]>>]>>] :
     a \in {Absent, "11291"}, c \in {Absent, "", "c1", "c9"},
     v \in {Absent, None, "Paris"}, k \in {Absent, "Cyrillic"}}

AliasVariants ==
  {[AliasTypeID |-> a, LowQuality |-> "false", Primary |-> "true",
    names |-> <<[ID |-> "n1",
                 parts |-> <<[NamePartGroupID |-> "G1520", text |-> "Doe",
                              ScriptID |-> c, Acronym |-> "false"]>>]>>] :
     a \in {"1400", "99"}, c \in {"215", "99"}}

EntryVariants ==
  {[ID |-> "e1", ListID |-> l,
    measures |-> <<[SanctionsTypeID |-> t, Comment |-> c]>>] :
     l \in {"1550", "99"}, t \in {"1", "99"}, c \in {Absent, None, "SDGT"}}

ExtractorDocs ==
  {[DefaultDoc EXCEPT !.parties[1].features = <<f>>] : f \in FeatureVariants}
  \cup {[DefaultDoc EXCEPT !.idregdocs = <<d>>] : d \in DocumentVariants}
  \cup {[DefaultDoc EXCEPT !.locations = <<l>>] : l \in LocationVariants}
  \cup {[DefaultDoc EXCEPT !.parties[1].profiles[1].identities[1].aliases = <<a>>] :
          a \in AliasVariants}
  \cup {[DefaultDoc EXCEPT !.entries = <<e>>] : e \in EntryVariants}

InitExtractors == \E d \in ExtractorDocs : StartAt(d, FullMaps, "feature")

SpecExtractors == InitExtractors /\ [][NextExtractors]_vars

\* the elements the rows of these runs come from
TheFeature == doc.parties[1].features[1]
TheDetail == TheFeature.version.VersionDetail
TheDocument == doc.idregdocs[1]
TheLocation == doc.locations[1]
TheAlias == doc.parties[1].profiles[1].identities[1].aliases[1]
TheEntry == doc.entries[1]

Unmapped(code, table) == code \notin DOMAIN table

Extracted == pc = "workbook"

Sentinels == {"Unknown", "Unknown Country", "Unknown Document Type",
              "Unknown List", "Unknown Type"}

\* the FeatureVersion's Value comes from the LOOKUP branch
LookupValueKept ==
  /\ TheDetail # <<>>
  /\ TheDetail[1].DetailTypeID = "1431"
  /\ ~(feature_rows[1]["FeatureType"] = "Location"
       /\ TheFeature.version.VersionLocation # <<>>)

(***************************************************************************)
(* C4 as stated: a code that is not a key of its reference table is        *)
(* rendered as one of the sentinel labels, in every extractor.             *)
(***************************************************************************)
C4_UnresolvedCodeIsSentinel ==
  /\ pc # "aborted"
  /\ Extracted =>
       /\ Unmapped(TheFeature.FeatureTypeID, maps.feature_type) =>
            feature_rows[1]["FeatureType"] \in Sentinels
       /\ (LookupValueKept
           /\ Unmapped(AttrGet(TheDetail[1].DetailReferenceID),
                       maps.detail_reference)) =>
            feature_rows[1]["Value"] \in Sentinels
       /\ (TheLocation.CountryID # Absent
           /\ Unmapped(TheLocation.CountryID, maps.country)) =>
            address_rows[1]["Country"] \in Sentinels
       /\ Unmapped(AttrGet(TheDocument.IssuedByCountryID), maps.country) =>
            id_rows[1]["Issuing_Country_Name"] \in Sentinels
       /\ Unmapped(TheDocument.IDRegDocTypeID, maps.doc_type) =>
            id_rows[1]["Document_Type_Name"] \in Sentinels
       /\ Unmapped(AttrGet(TheEntry.ListID), maps.list_id) =>
            sanctions_rows[1][2] \in Sentinels
       /\ Unmapped(AttrGet(TheEntry.measures[1].SanctionsTypeID),
                   maps.sanctions_type) =>
            sanctions_rows[1][3] \in Sentinels
       /\ Unmapped(TheAlias.AliasTypeID, maps.alias_type_values) =>
            name_rows[1][5] \in Sentinels
       /\ Unmapped(TheAlias.names[1].parts[1].ScriptID, maps.script_values) =>
            name_rows[1][8] \in Sentinels

(***************************************************************************)
(* C4 as amended: an unresolved code never raises an error.  It is         *)
(* rendered as "Unknown Country" / "Unknown Document Type" in id_parser,   *)
(* "Unknown List" / "Unknown Type" in sanctions_entries_parser and         *)
(* "Unknown" for the alias type and the script in name_parser; it is       *)
(* rendered as the empty string for the feature type and the LOOKUP        *)
(* detail reference in feature_parser and for the country in               *)
(* address_parser, where an empty country code with area code 11291 gives  *)
(* "undetermined".                                                         *)
(***************************************************************************)
C4_UnresolvedCodeDefaults ==
  /\ pc # "aborted"
  /\ Extracted =>
       /\ Unmapped(TheFeature.FeatureTypeID, maps.feature_type) =>
            feature_rows[1]["FeatureType"] = ""
       /\ (LookupValueKept
           /\ Unmapped(AttrGet(TheDetail[1].DetailReferenceID),
                       maps.detail_reference)) =>
            feature_rows[1]["Value"] = ""
       /\ (TheLocation.CountryID # Absent
           /\ Unmapped(TheLocation.CountryID, maps.country)) =>
            address_rows[1]["Country"] =
              IF TheLocation.CountryID = "" /\ TheLocation.AreaCodeID = "11291"
              THEN "undetermined" ELSE ""
       /\ Unmapped(AttrGet(TheDocument.IssuedByCountryID), maps.country) =>
            id_rows[1]["Issuing_Country_Name"] = "Unknown Country"
       /\ Unmapped(TheDocument.IDRegDocTypeID, maps.doc_type) =>
            id_rows[1]["Document_Type_Name"] = "Unknown Document Type"
       /\ Unmapped(AttrGet(TheEntry.ListID), maps.list_id) =>
            sanctions_rows[1][2] = "Unknown List"
       /\ Unmapped(AttrGet(TheEntry.measures[1].SanctionsTypeID),
                   maps.sanctions_type) =>
            sanctions_rows[1][3] = "Unknown Type"
       /\ Unmapped(TheAlias.AliasTypeID, maps.alias_type_values) =>
            name_rows[1][5] = "Unknown"
       /\ Unmapped(TheAlias.names[1].parts[1].ScriptID, maps.script_values) =>
            name_rows[1][8] = "Unknown"

\* the extractors have returned for a Feature whose type code and LOOKUP
\* detail reference are both unresolved
C4_Witness ==
  /\ Extracted
  /\ Unmapped(TheFeature.FeatureTypeID, maps.feature_type)
  /\ LookupValueKept
  /\ Unmapped(AttrGet(TheDetail[1].DetailReferenceID), maps.detail_reference)
  /\ feature_rows[1]["FeatureType"] = ""
  /\ name_rows[1][8] = "Latin"

AllCells ==
  UNION {{feature_rows[n][k] : k \in DOMAIN feature_rows[n]} :
           n \in 1..Len(feature_rows)}
  \cup UNION {{id_rows[n][k] : k \in DOMAIN id_rows[n]} : n \in 1..Len(id_rows)}
  \cup UNION {{address_rows[n][k] : k \in DOMAIN address_rows[n]} :
                n \in 1..Len(address_rows)}
  \cup UNION {{name_rows[n][k] : k \in DOMAIN name_rows[n]} :
                n \in 1..Len(name_rows)}
  \cup UNION {{sanctions_rows[n][k] : k \in DOMAIN sanctions_rows[n]} :
                n \in 1..Len(sanctions_rows)}

(***************************************************************************)
(* C8: every cell of every row of the five extractors is a string; an      *)
(* absent or text-less optional element gives "" and never None.           *)
(***************************************************************************)
C8_EveryCellIsString == None \notin AllCells

(***************************************************************************)
(* feature_parser runs: one party whose first Feature varies in its type,  *)
(* its VersionDetail and its VersionLocation                               *)
(***************************************************************************)
EndDate == [Year |-> "2021", Month |-> "06", Day |-> "30"]

\* a Start whose Month element has no text, and one with no Day element
TextlessDate == [Year |-> "2020", Month |-> None, Day |-> "15"]

PartialDate == [Year |-> "2020", Month |-> "1", Day |-> Absent]

DatePeriods ==
  {<<>>} \cup
  {<<[Start |-> s, End |-> e]>> :
     s \in {<<>>, <<StartDate>>, <<TextlessDate>>, <<PartialDate>>},
     e \in {<<>>, <<EndDate>>}}

DateDetail(date_period) ==
  <<[DetailTypeID |-> "1430", DetailReferenceID |-> Absent, text |-> None,
     CountryID |-> Absent, DatePeriod |-> date_period]>>

CountryDetail(country_id) ==
  <<[DetailTypeID |-> "1433", DetailReferenceID |-> Absent, text |-> None,
     CountryID |-> country_id, DatePeriod |-> <<>>]>>

\* a VersionDetail of a detail type the dispatch does not know, or of none
OtherDetail(detail_type_id) ==
  <<[DetailTypeID |-> detail_type_id, DetailReferenceID |-> "91",
     text |-> "Director", CountryID |-> "c1",
     DatePeriod |-> <<[Start |-> <<StartDate>>, End |-> <<>>]>>]>>

FeatureDetails ==
  {<<>>, LookupDetail("91"), TextDetail("Director"), CountryDetail("c1"),
   CountryDetail(Absent), OtherDetail("1434"), OtherDetail(Absent)}
  \cup {DateDetail(p) : p \in DatePeriods}

FeatureRunVariants ==
  {[FeatureTypeID |-> t,
    version |-> [ReliabilityID |-> "1", Comment |-> Absent, VersionDetail |-> d,
                 VersionLocation |-> l]] :
     t \in {"25", "26", "99"}, d \in FeatureDetails,
     l \in {<<>>, <<[LocationID |-> "L1"]>>, <<[LocationID |-> Absent]>>}}

InitFeature ==
  \E f \in FeatureRunVariants :
    StartAt([EmptyDoc EXCEPT
               !.parties = <<[Party("100", <<>>) EXCEPT
                                !.features = <<f, TextFeature>>]>>],
            FullMaps, "feature")

SpecFeature == InitFeature /\ [][NextFeature]_vars

\* feature_parser has returned; the one party's rows stand in feature order
FeaturesReturned == pc = Following("feature")

IsDate(feature) ==
  /\ feature.version.VersionDetail # <<>>
  /\ feature.version.VersionDetail[1].DetailTypeID = "1430"

IsLocation(feature) ==
  /\ feature.FeatureTypeID \in DOMAIN maps.feature_type
  /\ maps.feature_type[feature.FeatureTypeID] = "Location"

\* "{year}-{month}-{day}" of the texts of a bound's sub-elements
Bound(d) == PyStr(d.Year) \o "-" \o PyStr(d.Month) \o "-" \o PyStr(d.Day)

ExpectedDateValue(date_period) ==
  CASE date_period = <<>> -> ""
    [] date_period # <<>> /\ date_period[1].Start # <<>>
         /\ date_period[1].End # <<>> ->
         Bound(date_period[1].Start[1]) \o " to " \o Bound(date_period[1].End[1])
    [] date_period # <<>> /\ date_period[1].Start # <<>>
         /\ date_period[1].End = <<>> ->
         "From " \o Bound(date_period[1].Start[1])
    [] date_period # <<>> /\ date_period[1].Start = <<>>
         /\ date_period[1].End # <<>> ->
         "Until " \o Bound(date_period[1].End[1])
    [] OTHER -> ""

(***************************************************************************)
(* C11: the row of a Feature with a DATE VersionDetail whose feature type  *)
(* is not "Location" has the Value "{start} to {end}", "From {start}",     *)
(* "Until {end}" or "" according to the bounds its DatePeriod has, each    *)
(* bound rendered as "{year}-{month}-{day}".                               *)
(***************************************************************************)
C11_DateValue ==
  FeaturesReturned =>
    \A n \in 1..Len(doc.parties[1].features) :
      LET feature == doc.parties[1].features[n]
      IN IsDate(feature) /\ ~IsLocation(feature) =>
           feature_rows[n]["Value"] =
             ExpectedDateValue(feature.version.VersionDetail[1].DatePeriod)

\* a row was returned for a DATE Feature whose DatePeriod has both bounds
C11_Witness ==
  /\ FeaturesReturned
  /\ \E n \in 1..Len(doc.parties[1].features) :
       LET feature == doc.parties[1].features[n]
       IN /\ IsDate(feature) /\ ~IsLocation(feature)
          /\ feature.version.VersionDetail[1].DatePeriod # <<>>
          /\ feature.version.VersionDetail[1].DatePeriod[1].Start # <<>>
          /\ feature.version.VersionDetail[1].DatePeriod[1].End # <<>>
          /\ feature_rows[n]["Value"] = "2020-1-15 to 2021-06-30"

(***************************************************************************)
(* C12: the row of a Feature whose type resolves to "Location" and whose   *)
(* FeatureVersion has a VersionLocation has that element's LocationID (""  *)
(* without the attribute) as its Value, whatever the VersionDetail is and  *)
(* whatever the dispatch on the detail type produced; without a            *)
(* VersionLocation the Value is the one the dispatch produced.             *)
(***************************************************************************)
C12_LocationOverride ==
  FeaturesReturned =>
    \A n \in 1..Len(doc.parties[1].features) :
      LET feature == doc.parties[1].features[n]
      IN IsLocation(feature) =>
           feature_rows[n]["Value"] =
             IF feature.version.VersionLocation # <<>>
             THEN AttrGet(feature.version.VersionLocation[1].LocationID)
             ELSE IF IsDate(feature)
             THEN ExpectedDateValue(feature.version.VersionDetail[1].DatePeriod)
             ELSE DetailValue(feature.version.VersionDetail)

\* C12 as stated: every Feature whose type resolves to "Location" has the
\* referenced Location's identifier as its Value (the empty string when it
\* references none), never the value of the dispatch on the detail type
C12_LocationAlwaysOverrides ==
  FeaturesReturned =>
    \A n \in 1..Len(doc.parties[1].features) :
      LET feature == doc.parties[1].features[n]
      IN IsLocation(feature) =>
           feature_rows[n]["Value"] =
             IF feature.version.VersionLocation # <<>>
             THEN AttrGet(feature.version.VersionLocation[1].LocationID)
             ELSE ""

\* a row was returned for a Location Feature whose TEXT detail would have
\* given another Value
C12_Witness ==
  /\ FeaturesReturned
  /\ \E n \in 1..Len(doc.parties[1].features) :
       LET feature == doc.parties[1].features[n]
       IN /\ IsLocation(feature)
          /\ feature.version.VersionDetail = TextDetail("Director")
          /\ feature.version.VersionLocation # <<>>
          /\ feature_rows[n]["Value"] = "L1"

(***************************************************************************)
(* address_parser runs on one Location that varies in its area code, its   *)
(* country code and its identity-document back-reference, in a document    *)
(* with two parties and at most one IDRegDocument                          *)
(***************************************************************************)
CyrillicPart ==
  [LocPartTypeID |-> "1454",
   values |-> <<[Value |-> "Parizh", Comment |-> "Cyrillic"]>>]

OwnerLocations ==
  [ID : {"L1"}, AreaCodeID : {Absent, "11291", "11290"},
   CountryID : {Absent, "", "c1", "c9"},
   IDRegDocumentID : {Absent, "d1", "i1", "i2", "x9"},
   parts : {<<>>, <<CyrillicPart>>}]

\* an IDRegDocument: its own ID and the ID of the Identity it belongs to
OwnerDocuments ==
  {<<>>} \cup {<<[ID |-> d, IdentityID |-> i]>> :
                 d \in {"d1", "i1"}, i \in {"i1", "i2"}}

OwnerParties ==
  <<Party("100", <<Profile("4", <<Identity("i1", "100")>>)>>),
    Party("200", <<Profile("3", <<Identity("i2", "200")>>)>>)>>

InitOwner ==
  \E location \in OwnerLocations, idregdocs \in OwnerDocuments :
    StartAt([EmptyDoc EXCEPT !.locations = <<location>>,
                             !.idregdocs = idregdocs,
                             !.parties = OwnerParties],
            FullMaps, "address")

SpecOwner == InitOwner /\ [][NextAddress]_vars

\* address_parser has returned the rows of the one Location
AddressReturned == pc = Following("address")

HasNoCountryCode(location) == location.CountryID \in {Absent, ""}

ExpectedCountry(location) ==
  IF location.AreaCodeID = "11291" /\ HasNoCountryCode(location)
  THEN "undetermined"
  ELSE IF location.CountryID \in DOMAIN maps.country
  THEN maps.country[location.CountryID]
  ELSE ""

(***************************************************************************)
(* C13: a Location with area code "11291" has the Country "undetermined"   *)
(* when it has no country code and the label of its country code (the     *)
(* empty string for a code the country table lacks) when it has one; a     *)
(* Location with another area code or none never gets "undetermined" from  *)
(* the override.                                                           *)
(***************************************************************************)
C13_UndeterminedOverride ==
  AddressReturned =>
    /\ Len(address_rows) >= 1
    /\ \A n \in 1..Len(address_rows) :
         /\ address_rows[n]["Country"] = ExpectedCountry(doc.locations[1])
         /\ doc.locations[1].AreaCodeID # "11291" =>
              address_rows[n]["Country"] # "undetermined"

\* the rows of a Location with area code "11291" were returned, once with
\* the override applied and once with a country code that resolves
C13_Witness ==
  /\ AddressReturned
  /\ doc.locations[1].AreaCodeID = "11291"
  /\ \/ /\ HasNoCountryCode(doc.locations[1])
        /\ address_rows[1]["Country"] = "undetermined"
     \/ /\ doc.locations[1].CountryID = "c1"
        /\ address_rows[1]["Country"] = "France"
  /\ Len(address_rows) = 2

\* the IDRegDocument elements that carry this ID
DocumentsWithID(id) ==
  {n \in 1..Len(doc.idregdocs) : doc.idregdocs[n].ID = id}

(***************************************************************************)
(* C14: the rows of a Location that references an IDRegDocument carry the  *)
(* FixedRef of the party owning the Identity that document belongs to,     *)
(* also when the document's ID differs from its Identity's ID.             *)
(***************************************************************************)
C14_OwnerThroughDocument ==
  AddressReturned =>
    \A d \in DocumentsWithID(doc.locations[1].IDRegDocumentID) :
      \A n \in 1..Len(address_rows) :
        address_rows[n]["FixedRef"] \in
          OwnerFixedRefs(doc.idregdocs[d].IdentityID)

IdentityIDs == {i.ID : i \in SeqToSet(AllIdentities(doc.parties))}

Unowned(location) ==
  \/ location.IDRegDocumentID = Absent
  \/ location.IDRegDocumentID \notin IdentityIDs

(***************************************************************************)
(* C15: a Location without a back-reference, or whose back-reference is    *)
(* the ID of no Identity, raises no error; its base row and its script     *)
(* rows are returned with the FixedRef "".                                 *)
(***************************************************************************)
C15_UnownedLocationKept ==
  /\ pc # "aborted"
  /\ AddressReturned /\ Unowned(doc.locations[1]) =>
       /\ Len(address_rows) = 1 + Len(doc.locations[1].parts)
       /\ address_rows[1]["Script Type"] = "Latin"
       /\ \A n \in 1..Len(address_rows) :
            /\ address_rows[n]["ID"] = doc.locations[1].ID
            /\ address_rows[n]["FixedRef"] = ""

\* the base row and the Cyrillic row of a Location whose back-reference
\* matches no Identity were returned
C15_Witness ==
  /\ AddressReturned
  /\ doc.locations[1].IDRegDocumentID = "x9"
  /\ Len(address_rows) = 2
  /\ address_rows[2]["Script Type"] = "Cyrillic"
  /\ address_rows[2]["FixedRef"] = ""

(***************************************************************************)
(* address_parser runs on one Location with up to MaxValues LocationParts  *)
(* of one LocationPartValue each, in several scripts                       *)
(***************************************************************************)
ScriptPart(type, value, comment) ==
  [LocPartTypeID |-> type, values |-> <<[Value |-> value, Comment |-> comment]>>]

\* values that fill, refill or empty a field of a bucket, that name a new
\* script, that have an unrecognized part type or no text, and one for the
\* base row
ScriptParts ==
  {ScriptPart("1454", "Parizh", "Cyrillic"), ScriptPart("1454", Absent, "Cyrillic"),
   ScriptPart("1450", "Idf", "Cyrillic"), ScriptPart("9", "Chennai", "Tamil"),
   ScriptPart("1454", "Chennai", "Tamil"), ScriptPart("1454", None, "Arabic"),
   ScriptPart("1454", "Paris", Absent)}

InitScripts ==
  \E parts \in SeqsUpTo(ScriptParts, MaxValues) :
    StartAt([EmptyDoc EXCEPT
               !.locations = <<[ID |-> "L1", AreaCodeID |-> "11290",
                                CountryID |-> "c1", IDRegDocumentID |-> "i1",
                                parts |-> parts]>>,
               !.parties = OwnerParties],
            FullMaps, "address")

SpecScripts == InitScripts /\ [][NextAddress]_vars

\* the values of the Location that are written to field f of script s
\* ("" for the base row), by their position in the scan
WritesTo(s, f) ==
  {n \in 1..Len(doc.locations[1].parts) :
     LET part == doc.locations[1].parts[n]
         comment == part.values[1].Comment
     IN /\ PartField(part.LocPartTypeID) = f
        /\ s = IF comment \in {Absent, None} THEN "" ELSE comment}

\* the text of the last such value, "" when there is none
FinalField(s, f) ==
  IF WritesTo(s, f) = {} THEN ""
  ELSE LET last == CHOOSE n \in WritesTo(s, f) : \A m \in WritesTo(s, f) : m <= n
           value == doc.locations[1].parts[last].values[1].Value
       IN IF value = Absent THEN "" ELSE value

\* the script names whose bucket ends with a non-empty field
NonEmptyScripts ==
  {s \in {p.values[1].Comment : p \in SeqToSet(doc.locations[1].parts)}
          \ {Absent, None, ""} :
     \E f \in AddrFieldSet : FinalField(s, f) \notin {"", None}}

(***************************************************************************)
(* C16: the rows of a Location are its base row followed by exactly one    *)
(* row for each script name whose bucket has a non-empty field after the   *)
(* scan; such a row has the base row's ID, FixedRef, AreaCodeID and        *)
(* Country, the bucket's eight address fields and the script name as its   *)
(* Script Type; a bucket whose fields are all empty gives no row.          *)
(***************************************************************************)
C16_OneRowPerNonEmptyBucket ==
  AddressReturned =>
    /\ Len(address_rows) = 1 + Cardinality(NonEmptyScripts)
    /\ \A f \in AddrFieldSet : address_rows[1][f] = FinalField("", f)
    /\ \A s \in NonEmptyScripts :
         \E n \in 2..Len(address_rows) : address_rows[n]["Script Type"] = s
    /\ \A n \in 2..Len(address_rows) :
         /\ address_rows[n]["Script Type"] \in NonEmptyScripts
         /\ \A k \in {"ID", "FixedRef", "AreaCodeID", "Country"} :
              address_rows[n][k] = address_rows[1][k]
         /\ \A f \in AddrFieldSet :
              address_rows[n][f] = FinalField(address_rows[n]["Script Type"], f)

\* three scripts were seen; two got a row and the one whose only value has
\* no text got none
C16_Witness ==
  /\ AddressReturned
  /\ Cardinality(NonEmptyScripts) = 2
  /\ Len(address_rows) = 3
  /\ \E p \in SeqToSet(doc.locations[1].parts) : p.values[1].Comment = "Arabic"

(***************************************************************************)
(* sanctions_entries_parser runs on up to MaxEntries entries of zero, one  *)
(* or two measures                                                         *)
(***************************************************************************)
Measure(type, comment) == [SanctionsTypeID |-> type, Comment |-> comment]

MeasureLists ==
  {<<>>, <<Measure("1", "SDGT")>>, <<Measure("99", Absent)>>,
   <<Measure("1", None)>>, <<Measure("1", "SDGT"), Measure("99", "IRAN")>>,
   <<Measure("99", Absent), Measure("1", "SDGT")>>}

SanctionsEntries ==
  [ID : {"e1", "e2"}, ListID : {"1550", "99"}, measures : MeasureLists]

InitSanctions ==
  \E entries \in SeqsUpTo(SanctionsEntries, MaxEntries) :
    StartAt([EmptyDoc EXCEPT !.entries = entries], FullMaps, "sanctions")

SpecSanctions == InitSanctions /\ [][NextSanctions]_vars

SanctionsReturned == pc = Following("sanctions")

\* the number of measures of the first e entries
RECURSIVE MeasuresUpTo(_)
MeasuresUpTo(e) ==
  IF e = 0 THEN 0 ELSE MeasuresUpTo(e - 1) + Len(doc.entries[e].measures)

Label(table, code, default) ==
  IF code \in DOMAIN table THEN table[code] ELSE default

(***************************************************************************)
(* C17: sanctions_entries_parser returns one row per (SanctionsEntry,      *)
(* SanctionsMeasure) pair in document order and none for an entry without  *)
(* measures; the row is the entry's ID, the label of its list code or      *)
(* "Unknown List", the label of the measure's type code or "Unknown Type", *)
(* and the measure's comment text, or "" when it has no comment.           *)
(***************************************************************************)
C17_OneRowPerMeasure ==
  SanctionsReturned =>
    /\ Len(sanctions_rows) = MeasuresUpTo(Len(doc.entries))
    /\ \A e \in 1..Len(doc.entries) :
         \A m \in 1..Len(doc.entries[e].measures) :
           LET entry == doc.entries[e]
               measure == entry.measures[m]
           IN sanctions_rows[MeasuresUpTo(e - 1) + m] =
                <<entry.ID,
                  Label(maps.list_id, entry.ListID, "Unknown List"),
                  Label(maps.sanctions_type, measure.SanctionsTypeID,
                        "Unknown Type"),
                  IF measure.Comment = Absent THEN "" ELSE measure.Comment>>

\* the rows of an entry with two measures that follows an entry with none
C17_Witness ==
  /\ SanctionsReturned
  /\ Len(doc.entries) = 2
  /\ doc.entries[1].measures = <<>>
  /\ Len(doc.entries[2].measures) = 2
  /\ Len(sanctions_rows) = 2
  /\ sanctions_rows[2][1] = doc.entries[2].ID

\* the position of a column in a list of field names
ColumnOf(fieldnames, name) ==
  CHOOSE n \in 1..Len(fieldnames) : fieldnames[n] = name

Placeholders == {"CountryRelevanceID", "FeatureVersionID"}

SparseDate == [Year |-> "2022", Month |-> Absent, Day |-> None]

EventPeriods ==
  {<<>>, <<[Start |-> <<>>, End |-> <<>>]>>,
   <<[Start |-> <<StartDate>>, End |-> <<>>]>>,
   <<[Start |-> <<>>, End |-> <<EndDate>>]>>,
   <<[Start |-> <<SparseDate>>, End |-> <<StartDate>>]>>}

DocumentDates == [IDRegDocDateTypeID : {"1480", "1481", "7"},
                  DatePeriod : EventPeriods]

InitDates ==
  \E dates \in SeqsUpTo(DocumentDates, MaxEvents) :
    StartAt([EmptyDoc EXCEPT
               !.idregdocs = <<[MainDocument EXCEPT !.dates = dates]>>,
               !.parties = OwnerParties],
            FullMaps, "id")

SpecDates == InitDates /\ [][NextId]_vars

IdReturned == pc = Following("id")

Events == doc.idregdocs[1].dates

WithStart == {n \in 1..Len(Events) :
                Events[n].DatePeriod # <<>> /\ Events[n].DatePeriod[1].Start # <<>>}

WithEnd == {n \in 1..Len(Events) :
              Events[n].DatePeriod # <<>> /\ Events[n].DatePeriod[1].End # <<>>}

Last(S) == CHOOSE n \in S : \A m \in S : m <= n

\* the text of a Year, Month or Day element as it is rendered
DatePart(x) == IF x = Absent THEN "" ELSE IF x = None THEN "None" ELSE x

Rendering(d) ==
  DatePart(d.Year) \o "-" \o DatePart(d.Month) \o "-" \o DatePart(d.Day)

(***************************************************************************)
(* C20: Issue_Date is the rendering of the Start of the last DocumentDate  *)
(* event that has a Start and Expiration_Date that of the End of the last  *)
(* event that has an End, whatever the events' date-type codes are; a      *)
(* field that no event sets is the empty string.                           *)
(***************************************************************************)
C20_LastDatedEventWins ==
  IdReturned =>
    /\ Len(id_rows) = 1
    /\ id_rows[1]["Issue_Date"] =
         IF WithStart = {} THEN ""
         ELSE Rendering(Events[Last(WithStart)].DatePeriod[1].Start[1])
    /\ id_rows[1]["Expiration_Date"] =
         IF WithEnd = {} THEN ""
         ELSE Rendering(Events[Last(WithEnd)].DatePeriod[1].End[1])

\* an expiration-typed event with only a Start, then an event of another
\* type with only an End: both fields are set
C20_Witness ==
  /\ IdReturned
  /\ Len(Events) = 2
  /\ Events[1].IDRegDocDateTypeID = "1481"
  /\ Events[2].IDRegDocDateTypeID = "7"
  /\ id_rows[1]["Issue_Date"] = "2020-1-15"
  /\ id_rows[1]["Expiration_Date"] = "2021-06-30"

(***************************************************************************)
(* The extractors called in any order: once a run of main has saved its    *)
(* workbook, the five extractors are called again on the same document and *)
(* mappings, any of them next, any number of times. The sheets of the     *)
(* saved workbook hold what each extractor returned in the order of main.  *)
(***************************************************************************)
ExtractorStages == {"feature", "id", "address", "name", "sanctions"}

\* the positions of main at which no extractor is running
BetweenExtractors == ExtractorStages \cup {"workbook", "done"}

Reorder ==
  /\ wb.saved
  /\ pc \in BetweenExtractors
  /\ \E stage \in ExtractorStages : pc' = stage
  /\ UNCHANGED <<doc, maps, err, wb>>
  /\ MainFrame

NextAnyOrder == \/ Next
                \/ Reorder

WellFormedParties ==
  {p \in MainParties :
     /\ p.FixedRef # Absent
     /\ p.profiles[1].identities[1].FixedRef # Absent
     /\ p.profiles[1].identities[1].aliases[1].names[1].parts[1].text # None}

InitAnyOrder ==
  \E parties \in SeqsUpTo(WellFormedParties, MaxParties),
     idregdocs \in {<<>>, <<MainDocument>>},
     locations \in SeqsUpTo({MainLocation}, MaxLocs),
     entries \in {<<>>, <<MainEntry>>} :
    StartAt([values |-> FullValues, parties |-> parties, idregdocs |-> idregdocs,
             locations |-> locations, entries |-> entries],
            NoMaps, "download")

SpecAnyOrder == InitAnyOrder /\ [][NextAnyOrder]_vars

\* the rows below the header of the sheet with this title
SheetRows(title) ==
  LET s == CHOOSE n \in 1..Len(wb.sheets) : wb.sheets[n].title = title
  IN SubSeq(wb.sheets[s].rows, 2, Len(wb.sheets[s].rows))

SheetHeader(title) ==
  LET s == CHOOSE n \in 1..Len(wb.sheets) : wb.sheets[n].title = title
  IN wb.sheets[s].rows[1]

\* the cells of the rows the extractors have returned, column by column
CellsOf(rows, fieldnames) ==
  [n \in 1..Len(rows) |->
     [c \in 1..Len(fieldnames) |->
        IF fieldnames[c] \in DOMAIN rows[n] THEN rows[n][fieldnames[c]] ELSE ""]]

SameAsInMain ==
  /\ SheetHeader("FEATURE") = feature_fieldnames
  /\ SheetRows("FEATURE") = CellsOf(feature_rows, feature_fieldnames)
  /\ SheetHeader("ID") = id_fieldnames
  /\ SheetRows("ID") = CellsOf(id_rows, id_fieldnames)
  /\ SheetHeader("ADDRESS") = address_fieldnames
  /\ SheetRows("ADDRESS") = CellsOf(address_rows, address_fieldnames)
  /\ SheetHeader("NAME") = name_fieldnames
  /\ SheetRows("NAME") = name_rows
  /\ SheetHeader("SANCTIONS_ENTRIES") = sanctions_entries_fieldnames
  /\ SheetRows("SANCTIONS_ENTRIES") = sanctions_rows

\* a step of one extractor leaves the document, the mappings and the rows
\* of the other four as they were
ReadsOnly ==
  /\ NextFeature => UNCHANGED <<doc, maps, id_rows, address_rows, name_rows,
                                sanctions_rows>>
  /\ NextId => UNCHANGED <<doc, maps, feature_rows, address_rows, name_rows,
                           sanctions_rows>>
  /\ NextAddress => UNCHANGED <<doc, maps, feature_rows, id_rows, name_rows,
                                sanctions_rows>>
  /\ NextName => UNCHANGED <<doc, maps, feature_rows, id_rows, address_rows,
                             sanctions_rows>>
  /\ NextSanctions => UNCHANGED <<doc, maps, feature_rows, id_rows,
                                  address_rows, name_rows>>

MapParties ==
  UNION {{Party(f, <<Profile("4", identities)>>) :
            identities \in {<<>>, <<Identity("i1", f)>>, <<Identity("i2", f)>>,
                            <<Identity("i1", f), Identity("i2", f)>>}} :
           f \in {"100", "200"}}

MapLocation ==
  [ID |-> "L1", AreaCodeID |-> Absent, CountryID |-> "c1",
   IDRegDocumentID |-> "i1", parts |-> <<CyrillicPart>>]

InitIdentityMap ==
  \E parties \in SeqsUpTo(MapParties, MaxParties),
     locations \in SeqsUpTo({MapLocation}, MaxLocs) :
    StartAt([EmptyDoc EXCEPT !.parties = parties, !.locations = locations],
            FullMaps, "address")

SpecIdentityMap == InitIdentityMap /\ [][NextAddress]_vars

\* the parties, by position, that contain an Identity with this ID
PartiesWith(id) ==
  {n \in 1..Len(doc.parties) :
     \E i \in SeqToSet(IdentitiesOf(doc.parties[n].profiles)) : i.ID = id}

ExpectedIdentityMap ==
  [id \in IdentityIDs |-> doc.parties[Last(PartiesWith(id))].FixedRef]

\* address_parser is in or past its loop over Location
MapBuilt == pc \in {"address_loc", "address_part"} \/ AddressReturned

\* a step of the loop over Location leaves the map as it was
MapKept ==
  pc \in {"address_loc", "address_part"} => UNCHANGED identity_to_fixed_ref

(***************************************************************************)
(* C21: from the first Location on, identity_to_fixed_ref maps every       *)
(* Identity ID to the FixedRef of the last party, in document order, that  *)
(* contains an Identity with that ID, and no step of the loop over         *)
(* Location changes it.                                                    *)
(***************************************************************************)
C21_IdentityMapBuiltFirst ==
  /\ [](MapBuilt => identity_to_fixed_ref = ExpectedIdentityMap)
  /\ [][MapKept]_vars

\* the second Location is being scanned; two parties hold an Identity "i1"
\* and the map has the FixedRef of the later one
C21_Witness ==
  /\ pc = "address_part"
  /\ idx = 2
  /\ PartiesWith("i1") = {1, 2}
  /\ doc.parties[1].FixedRef # doc.parties[2].FixedRef
  /\ identity_to_fixed_ref["i1"] = doc.parties[2].FixedRef
  /\ address_rows[1]["FixedRef"] = doc.parties[2].FixedRef

(***************************************************************************)
(* address_parser runs on up to MaxLocs Locations taken from a few that    *)
(* mix commented and uncommented values                                    *)
(***************************************************************************)
FrameLocations ==
  {[ID |-> "L1", AreaCodeID |-> Absent, CountryID |-> "c1",
    IDRegDocumentID |-> Absent, parts |-> parts] :
     parts \in
       {<<>>,
        <<ScriptPart("1454", "Parizh", "Cyrillic"), ScriptPart("1454", "Paris", Absent)>>,
        <<ScriptPart("1454", "Paris", None), ScriptPart("1450", "Idf", "Cyrillic")>>,
        <<ScriptPart("1454", "Chennai", "Tamil"), ScriptPart("1454", "Parizh", "Cyrillic")>>,
        <<ScriptPart("9", "Chennai", "Tamil"), ScriptPart("9", "Paris", Absent)>>,
        <<ScriptPart("1454", "Parizh", "Cyrillic"), ScriptPart("1454", Absent, "Cyrillic")>>,
        <<ScriptPart("1450", "Idf", Absent), ScriptPart("1454", "Rim", "Latin")>>}}

InitFrames ==
  \E locations \in SeqsUpTo(FrameLocations, MaxLocs) :
    StartAt([EmptyDoc EXCEPT !.locations = locations, !.parties = OwnerParties],
            FullMaps, "address")

SpecFrames == InitFrames /\ [][NextAddress]_vars

\* field f of the bucket of script s, "" when there is no such bucket
BucketField(nld, s, f) ==
  IF \E n \in 1..Len(nld) : nld[n].script = s
  THEN nld[CHOOSE n \in 1..Len(nld) : nld[n].script = s].values[f]
  ELSE ""

ScriptsOf(nld) == {nld[n].script : n \in 1..Len(nld)}

\* the part value a step of the scan reads
ScannedValue == PartValues(doc.locations[idx].parts)[sub]

ScannedText == IF ScannedValue.Value = Absent THEN "" ELSE ScannedValue.Value

HasComment(v) == v.Comment \notin {Absent, None, ""}

\* the field names a part-type code selects: one, or none when the code is
\* not recognized
Selected(type) ==
  {f \in AddrFieldSet :
     \/ type = "1" /\ f = "Unknown"
     \/ type = "1450" /\ f = "Region"
     \/ type = "1451" /\ f = "Address 1"
     \/ type = "1452" /\ f = "Address 2"
     \/ type = "1453" /\ f = "Address 3"
     \/ type = "1454" /\ f = "City"
     \/ type = "1455" /\ f = "State/ Province"
     \/ type = "1456" /\ f = "Postal Code"}

\* what a step that scans a commented value changes
CommentedStep ==
  /\ data' = data
  /\ \A s \in ScriptsOf(non_latin_data) \cup ScriptsOf(non_latin_data'),
        f \in AddrFieldSet :
       BucketField(non_latin_data', s, f) =
         IF s = ScannedValue.Comment /\ f \in Selected(ScannedValue.type)
         THEN ScannedText
         ELSE BucketField(non_latin_data, s, f)

\* what a step that scans a value without comment changes
UncommentedStep ==
  /\ non_latin_data' = non_latin_data
  /\ \A k \in DOMAIN data :
       data'[k] = IF k \in Selected(ScannedValue.type) THEN ScannedText
                  ELSE data[k]

\* a Location starts with every bucket empty
FreshBuckets ==
  \A s \in ScriptsOf(non_latin_data'), f \in AddrFieldSet :
    BucketField(non_latin_data', s, f) = ""

ScanFrame ==
  /\ pc = "address_part" /\ pc' = "address_part" =>
       IF HasComment(ScannedValue) THEN CommentedStep ELSE UncommentedStep
  /\ pc = "address_loc" /\ pc' = "address_part" => FreshBuckets

(***************************************************************************)
(* C22: while the parts of a Location are scanned, a value with a          *)
(* non-empty comment changes only the field of its own script's bucket     *)
(* that its part-type code selects, a value without comment changes only   *)
(* that field of the base row, a value with an unrecognized part-type code *)
(* changes no field, and the next Location starts with empty buckets.      *)
(***************************************************************************)
C22_ScanChangesOneField == [][ScanFrame]_vars

\* the second Location is being scanned with a Tamil value in its bucket
\* and nothing in the Cyrillic bucket that the first Location filled
C22_Witness ==
  /\ pc = "address_part"
  /\ idx = 2
  /\ \E n \in 1..Len(address_rows) : address_rows[n]["Script Type"] = "Cyrillic"
  /\ BucketField(non_latin_data, "Cyrillic", "City") = ""
  /\ BucketField(non_latin_data, "Tamil", "City") = "Chennai"

====
